---- MODULE Spec2Model ----
(***************************************************************************)
(* State-machine model of the CDCL SAT solver of bench/cdcl_solver.py     *)
(* (two-watched-literal BCP, first-UIP analysis, non-chronological        *)
(* backtracking, VSIDS) and of the hardware-BCP bridge of                 *)
(* bench/hw_bcp_sim.py.                                                    *)
(*                                                                         *)
(* Python indices are 0-based, TLA+ sequences 1-based: clause IDs, trail   *)
(* positions, prop_head and delimiters keep their Python values, and a     *)
(* sequence is read at (index + 1).                                        *)
(***************************************************************************)
EXTENDS Integers, Sequences, FiniteSets, TLC

\* ── Bounds of the model ──────────────────────────────────────────────────
NumVars == 3
MaxClauses == 2
MaxLen == 3
MaxBinClauses == 4
MaxConflicts == 5

\* ── Program constants ────────────────────────────────────────────────────
UNASSIGNED == -1
NoReason == -1
NoConflict == -1

Vars == 1..NumVars
Codes == 2..(2 * NumVars + 1)
SignedLits == {l \in (0 - NumVars)..NumVars : l # 0}

\* ── Literal encoding (bench/dimacs_parser.py) ────────────────────────────
lit_to_code(lit) == IF lit > 0 THEN 2 * lit ELSE 2 * (0 - lit) + 1

lit_neg(code) == IF code % 2 = 0 THEN code + 1 ELSE code - 1

lit_var(code) == code \div 2

\* ── Sequence helpers ─────────────────────────────────────────────────────
Swap(seq, a, b) == [seq EXCEPT ![a] = seq[b], ![b] = seq[a]]

Range(seq) == {seq[i] : i \in 1..Len(seq)}

Count(seq, x) == Cardinality({i \in 1..Len(seq) : seq[i] = x})

RECURSIVE Pow(_, _)
Pow(b, e) == IF e = 0 THEN 1 ELSE b * Pow(b, e - 1)

\* ── Input formulas ───────────────────────────────────────────────────────
\* A DIMACS clause: a sequence of at most MaxLen signed literals. The parser
\* keeps the literals as written (no sorting, no de-duplication).
RECURSIVE SeqsUpTo(_, _)
SeqsUpTo(S, n) ==
    IF n = 0 THEN {<<>>}
    ELSE LET shorter == SeqsUpTo(S, n - 1)
         IN  shorter \cup {Append(q, x) : q \in {r \in shorter : Len(r) = n - 1}, x \in S}

DistinctVars(c) ==
    \A i, j \in 1..Len(c) : i # j => lit_var(lit_to_code(c[i])) # lit_var(lit_to_code(c[j]))

\* Every clause of at most MaxLen literals over NumVars variables, repeated
\* and complementary literals included.
InputClauses == SeqsUpTo(SignedLits, MaxLen)

\* Two-literal clauses over the variables 1 and 2.
BinaryClauses == {c \in SeqsUpTo({-2, -1, 1, 2}, 2) : Len(c) = 2 /\ DistinctVars(c)}

\* The input space: every formula of at most MaxClauses clauses, and every
\* formula of at most MaxBinClauses binary clauses over two variables (the
\* smallest formulas that are UNSAT without unit or repeated literals).
Formulas == SeqsUpTo(InputClauses, MaxClauses) \cup SeqsUpTo(BinaryClauses, MaxBinClauses)


\* ── Solver state ─────────────────────────────────────────────────────────
\* The fields of a CDCLSolver object (cdcl_solver.py:37-70) and the position
\* of solve() in its loop.
VARIABLES
    formula,           \* the CNFFormula given to the constructor
    clauses,           \* clause database: records [size, learnt, lits]
    watches,           \* literal code -> sequence of clause IDs
    assigns,           \* variable -> UNASSIGNED / 0 / 1
    levels,            \* variable -> decision level
    reasons,           \* variable -> clause ID or -1
    activity,          \* variable -> VSIDS activity (scaled, see ActScale)
    var_inc,           \* VSIDS increment (scaled)
    trail,             \* assignment stack of literal codes
    prop_head,         \* number of trail literals already propagated
    trail_delimiters,  \* trail length at the start of each decision level
    num_decisions,     \* current decision level
    stats,             \* SolverStats
    pc,                \* position of solve() in its loop
    conflict,          \* last return value of the propagator
    learnt_lits,       \* last learnt clause returned by _analyze
    bt_level,          \* last backtrack level returned by _analyze
    result,            \* "none" while running, then "SAT" / "UNSAT"
    hw,                \* the BCP accelerator of the HW-bridge run
    sw_run,            \* result and stats of the finished software run
    tb,                \* the host of the accelerator test bench
    host_if,           \* the registers of HostInterface in BCPTop
    uart               \* the host at the byte interfaces of BCPTop

solverVars == <<clauses, watches, assigns, levels, reasons, activity, var_inc,
                trail, prop_head, trail_delimiters, num_decisions, stats>>

\* The solver object as one record, for the operators that model its methods.
Cur ==
    [clauses |-> clauses, watches |-> watches, assigns |-> assigns,
     levels |-> levels, reasons |-> reasons, activity |-> activity,
     var_inc |-> var_inc, trail |-> trail, prop_head |-> prop_head,
     trail_delimiters |-> trail_delimiters, num_decisions |-> num_decisions,
     stats |-> stats]

SetSolver(s) ==
    /\ clauses' = s.clauses
    /\ watches' = s.watches
    /\ assigns' = s.assigns
    /\ levels' = s.levels
    /\ reasons' = s.reasons
    /\ activity' = s.activity
    /\ var_inc' = s.var_inc
    /\ trail' = s.trail
    /\ prop_head' = s.prop_head
    /\ trail_delimiters' = s.trail_delimiters
    /\ num_decisions' = s.num_decisions
    /\ stats' = s.stats

\* VSIDS activities are floats: var_inc starts at 1.0 and is divided by
\* VSIDS_DECAY = 0.95 after each conflict, so every activity is a sum of
\* powers of 20/19. The model keeps them as exact integers scaled by
\* 19^MaxConflicts; sums with different sets of exponents differ by far more
\* than the float rounding error, so comparisons agree with the floats. The
\* 1e100 rescale of _var_bump_activity needs thousands of conflicts and lies
\* beyond MaxConflicts.
ActScale == Pow(19, MaxConflicts)

SolverStats0 ==
    [decisions |-> 0, conflicts |-> 0, propagations |-> 0, implications |-> 0,
     learned_clauses |-> 0]

\* ── Clause database ──────────────────────────────────────────────────────
\* CDCLSolver._add_learnt_clause: append the clause, watch positions 0 and 1.
AddLearntClause(s, lit_codes, learnt) ==
    LET ci == Len(s.clauses)
        c  == [size |-> Len(lit_codes), learnt |-> learnt, lits |-> lit_codes]
        w1 == IF Len(lit_codes) >= 2
              THEN [s.watches EXCEPT ![lit_codes[1]] = Append(@, ci)]
              ELSE s.watches
        w2 == IF Len(lit_codes) >= 2
              THEN [w1 EXCEPT ![lit_codes[2]] = Append(@, ci)]
              ELSE w1
    IN  [s EXCEPT !.clauses = Append(@, c),
                  !.watches = w2,
                  !.stats.learned_clauses = IF learnt THEN @ + 1 ELSE @]

\* CDCLSolver._add_clause: the same from signed literals, not counted as learnt.
AddClause(s, signed_lits) ==
    LET lits == [i \in 1..Len(signed_lits) |-> lit_to_code(signed_lits[i])]
        ci   == Len(s.clauses)
        c    == [size |-> Len(lits), learnt |-> FALSE, lits |-> lits]
        w1   == IF Len(lits) >= 2
                THEN [s.watches EXCEPT ![lits[1]] = Append(@, ci)]
                ELSE s.watches
        w2   == IF Len(lits) >= 2
                THEN [w1 EXCEPT ![lits[2]] = Append(@, ci)]
                ELSE w1
    IN  [s EXCEPT !.clauses = Append(@, c), !.watches = w2]

RECURSIVE AddClauses(_, _, _)
AddClauses(s, f, i) ==
    IF i > Len(f) THEN s ELSE AddClauses(AddClause(s, f[i]), f, i + 1)

\* CDCLSolver.__init__
NewSolver(f) ==
    AddClauses(
        [clauses |-> <<>>,
         watches |-> [c \in 0..(2 * NumVars + 1) |-> <<>>],
         assigns |-> [v \in Vars |-> UNASSIGNED],
         levels |-> [v \in Vars |-> 0],
         reasons |-> [v \in Vars |-> NoReason],
         activity |-> [v \in Vars |-> 0],
         var_inc |-> ActScale,
         trail |-> <<>>,
         prop_head |-> 0,
         trail_delimiters |-> <<>>,
         num_decisions |-> 0,
         stats |-> SolverStats0],
        f, 1)

\* ── Assignment helpers ───────────────────────────────────────────────────
\* CDCLSolver._lit_value
LitValue(a, code) ==
    IF a[lit_var(code)] = UNASSIGNED THEN UNASSIGNED
    ELSE IF code % 2 = 1 THEN 1 - a[lit_var(code)]
    ELSE a[lit_var(code)]

\* CDCLSolver._enqueue
Enqueue(s, code, reason) ==
    [s EXCEPT !.assigns[lit_var(code)] = IF code % 2 = 1 THEN 0 ELSE 1,
              !.levels[lit_var(code)] = s.num_decisions,
              !.reasons[lit_var(code)] = reason,
              !.trail = Append(@, code),
              !.stats.implications = @ + 1]

\* ── Software BCP ─────────────────────────────────────────────────────────
\* Faulty variant: the scan stops before the last literal (range(2, size - 1)).
FindReplacementShort(a, lits) ==
    LET cand == {k \in 3..(Len(lits) - 1) : LitValue(a, lits[k]) # 0}
    IN  IF cand = {} THEN 0 ELSE CHOOSE k \in cand : \A m \in cand : k <= m

\* Faulty variant: the scan takes the first literal that is not TRUE, a
\* FALSE one included (other than the literal being propagated).
FindReplacementNotTrue(a, lits) ==
    LET cand == {k \in 3..Len(lits) : LitValue(a, lits[k]) # 1 /\ lits[k] # lits[2]}
    IN  IF cand = {} THEN 0 ELSE CHOOSE k \in cand : \A m \in cand : k <= m

\* The replacement scan of _propagate_sw: the first position k in 2..size-1
\* (Python) whose literal is not FALSE, or 0 if there is none. Returned as a
\* 1-based position.
FindReplacement(a, lits) ==
    LET cand == {k \in 3..Len(lits) : LitValue(a, lits[k]) # 0}
    IN  IF cand = {} THEN 0 ELSE CHOOSE k \in cand : \A m \in cand : k <= m

\* Faulty variant: the watchers behind the conflicting clause are dropped.
SpliceDropRest(w, i, j) == SubSeq(w, 1, j + 1)

\* Faulty variant: the copy starts one entry too far, so the first unvisited
\* watcher is lost.
SpliceSkipOne(w, i, j) == SubSeq(w, 1, j + 1) \o SubSeq(w, i + 3, Len(w))

\* The conflict exit of _propagate_sw (lines 170-176): after wlist[j] = ci,
\* the entries behind read index i are copied down behind write index j and
\* the list is truncated.
SpliceOnConflict(w, i, j) == SubSeq(w, 1, j + 1) \o SubSeq(w, i + 2, Len(w))

\* The inner loop of _propagate_sw over wlist = watches[false_lit], with read
\* index i and write index j; wlist is compacted in place. Returns the solver
\* and the conflict clause ID (or -1).
RECURSIVE WalkWatchList(_, _, _, _)
WalkWatchList(s, false_lit, i, j) ==
    LET wlist == s.watches[false_lit] IN
    IF i >= Len(wlist)
    THEN [s |-> [s EXCEPT !.watches[false_lit] = SubSeq(wlist, 1, j)],
          conflict |-> NoConflict]
    ELSE
      LET ci    == wlist[i + 1]
          c     == s.clauses[ci + 1]
          lits1 == IF c.lits[1] = false_lit THEN Swap(c.lits, 1, 2) ELSE c.lits
          s1    == [s EXCEPT !.clauses[ci + 1].lits = lits1]
          k     == FindReplacement(s.assigns, lits1)
      IN
      IF LitValue(s.assigns, lits1[1]) = 1
      THEN WalkWatchList([s1 EXCEPT !.watches[false_lit][j + 1] = ci],
                         false_lit, i + 1, j + 1)
      ELSE IF k # 0
      THEN LET lits2 == Swap(lits1, 2, k)
           IN  WalkWatchList(
                   [s1 EXCEPT !.clauses[ci + 1].lits = lits2,
                              !.watches[lits2[2]] = Append(@, ci)],
                   false_lit, i + 1, j)
      ELSE LET s2 == [s1 EXCEPT !.watches[false_lit][j + 1] = ci]
               w2 == s2.watches[false_lit]
           IN
           IF LitValue(s.assigns, lits1[1]) = 0
           THEN [s |-> [s2 EXCEPT !.watches[false_lit] = SpliceOnConflict(w2, i, j)],
                 conflict |-> ci]
           ELSE WalkWatchList(Enqueue(s2, lits1[1], ci), false_lit, i + 1, j + 1)

\* CDCLSolver._propagate_sw
RECURSIVE PropagateSW(_)
PropagateSW(s) ==
    IF s.prop_head >= Len(s.trail)
    THEN [s |-> s, conflict |-> NoConflict]
    ELSE LET false_lit == lit_neg(s.trail[s.prop_head + 1])
             s1 == [s EXCEPT !.prop_head = @ + 1, !.stats.propagations = @ + 1]
             r  == WalkWatchList(s1, false_lit, 0, 0)
         IN  IF r.conflict # NoConflict THEN r ELSE PropagateSW(r.s)


\* ── VSIDS ────────────────────────────────────────────────────────────────
\* CDCLSolver._var_bump_activity (the 1e100 rescale is out of reach, see ActScale)
VarBumpActivity(act, inc, var) == [act EXCEPT ![var] = @ + inc]

\* CDCLSolver._var_decay_activity: var_inc /= 0.95
VarDecayActivity(inc) == (inc * 20) \div 19

\* Faulty variant: the scan stops one variable early (range(1, num_vars)).
RECURSIVE PickScanShort(_, _, _, _, _)
PickScanShort(a, act, v, best_var, best_act) ==
    IF v > NumVars - 1 THEN best_var
    ELSE IF a[v] = UNASSIGNED /\ act[v] > best_act
         THEN PickScanShort(a, act, v + 1, v, act[v])
         ELSE PickScanShort(a, act, v + 1, best_var, best_act)

PickDecisionVarSkipLast(s) == PickScanShort(s.assigns, s.activity, 1, 0, -1)

\* Faulty variant: >= instead of >, so the last of the tied variables wins.
RECURSIVE PickScanLastTie(_, _, _, _, _)
PickScanLastTie(a, act, v, best_var, best_act) ==
    IF v > NumVars THEN best_var
    ELSE IF a[v] = UNASSIGNED /\ act[v] >= best_act
         THEN PickScanLastTie(a, act, v + 1, v, act[v])
         ELSE PickScanLastTie(a, act, v + 1, best_var, best_act)

\* CDCLSolver._pick_decision_var: scan v = 1..N keeping the first strict maximum.
RECURSIVE PickScan(_, _, _, _, _)
PickScan(a, act, v, best_var, best_act) ==
    IF v > NumVars THEN best_var
    ELSE IF a[v] = UNASSIGNED /\ act[v] > best_act
         THEN PickScan(a, act, v + 1, v, act[v])
         ELSE PickScan(a, act, v + 1, best_var, best_act)

PickDecisionVar(s) == PickScan(s.assigns, s.activity, 1, 0, -1)

\* ── Conflict analysis (first UIP) ────────────────────────────────────────
\* Python list read with a possibly negative index.
PyAt(seq, idx) == IF idx >= 0 THEN seq[idx + 1] ELSE seq[Len(seq) + idx + 1]

\* Faulty variant: literals of level 0 join the learnt clause too.
KeepRootLits(lv, current_level) == lv # current_level

\* `elif self.levels[var] > 0: learnt.append(lit)` (lines 216-219, 247-250):
\* a literal below the current level joins the learnt clause unless its level is 0.
KeepInLearnt(lv, current_level) == lv # current_level /\ lv > 0

\* The marking loop of _analyze over the literals of one clause (lines
\* 211-219 for the conflict clause, 240-250 for a reason clause, where the
\* resolved variable `skip` is passed over; skip = 0 passes over nothing).
\* acc = [seen, counter, learnt, activity].
RECURSIVE MarkLits(_, _, _, _, _, _)
MarkLits(s, current_level, lits, idx, skip, acc) ==
    IF idx > Len(lits) THEN acc
    ELSE LET lit == lits[idx]
             var == lit_var(lit)
         IN  IF var = skip \/ var \in acc.seen
             THEN MarkLits(s, current_level, lits, idx + 1, skip, acc)
             ELSE MarkLits(s, current_level, lits, idx + 1, skip,
                    [seen     |-> acc.seen \cup {var},
                     activity |-> VarBumpActivity(acc.activity, s.var_inc, var),
                     counter  |-> IF s.levels[var] = current_level
                                  THEN acc.counter + 1 ELSE acc.counter,
                     learnt   |-> IF KeepInLearnt(s.levels[var], current_level)
                                  THEN Append(acc.learnt, lit) ELSE acc.learnt])

\* `while not seen[lit_var(self.trail[trail_idx])]: trail_idx -= 1`
RECURSIVE SkipUnseen(_, _, _)
SkipUnseen(tr, seen, trail_idx) ==
    IF lit_var(PyAt(tr, trail_idx)) \in seen THEN trail_idx
    ELSE SkipUnseen(tr, seen, trail_idx - 1)

\* `while counter > 0:` of _analyze. Returns acc extended with uip_lit and ok
\* (ok = FALSE: the assertion reason_ci >= 0 failed).
RECURSIVE WalkTrail(_, _, _, _)
WalkTrail(s, current_level, trail_idx, acc) ==
    IF acc.counter <= 0 THEN acc
    ELSE LET ti  == SkipUnseen(s.trail, acc.seen, trail_idx)
             p   == PyAt(s.trail, ti)
             var == lit_var(p)
             a1  == [acc EXCEPT !.seen = @ \ {var}, !.counter = @ - 1]
         IN  IF a1.counter = 0
             THEN [a1 EXCEPT !.uip_lit = lit_neg(p)]
             ELSE IF s.reasons[var] < 0
             THEN [a1 EXCEPT !.ok = FALSE, !.counter = 0]
             ELSE LET rc == s.clauses[s.reasons[var] + 1]
                      m  == MarkLits(s, current_level, rc.lits, 1, var,
                                     [seen |-> a1.seen, activity |-> a1.activity,
                                      counter |-> a1.counter, learnt |-> a1.learnt])
                  IN  WalkTrail(s, current_level, ti - 1,
                                [a1 EXCEPT !.seen = m.seen, !.activity = m.activity,
                                           !.counter = m.counter, !.learnt = m.learnt])

\* Faulty variant: among literals of equal highest level the last one is
\* taken (the scan compares with >=).
RECURSIVE BtScanLastTie(_, _, _, _)
BtScanLastTie(lv, learnt, i, acc) ==
    IF i >= Len(learnt) THEN acc
    ELSE IF lv[lit_var(learnt[i + 1])] >= acc.bt_level
         THEN BtScanLastTie(lv, learnt, i + 1,
                     [bt_level |-> lv[lit_var(learnt[i + 1])], max_idx |-> i])
         ELSE BtScanLastTie(lv, learnt, i + 1, acc)

\* Faulty variant: the scan stops one literal early (range(1, len(learnt) - 1)).
RECURSIVE BtScanStopEarly(_, _, _, _)
BtScanStopEarly(lv, learnt, i, acc) ==
    IF i >= Len(learnt) - 1 THEN acc
    ELSE IF lv[lit_var(learnt[i + 1])] > acc.bt_level
         THEN BtScanStopEarly(lv, learnt, i + 1,
                     [bt_level |-> lv[lit_var(learnt[i + 1])], max_idx |-> i])
         ELSE BtScanStopEarly(lv, learnt, i + 1, acc)

\* The backtrack-level scan of _analyze (lines 255-262): the largest level
\* among learnt[1..] (Python) and the first position holding it.
\* acc = [bt_level, max_idx], positions are Python positions.
RECURSIVE BtScan(_, _, _, _)
BtScan(lv, learnt, i, acc) ==
    IF i >= Len(learnt) THEN acc
    ELSE IF lv[lit_var(learnt[i + 1])] > acc.bt_level
         THEN BtScan(lv, learnt, i + 1,
                     [bt_level |-> lv[lit_var(learnt[i + 1])], max_idx |-> i])
         ELSE BtScan(lv, learnt, i + 1, acc)

\* The post-processing of _analyze (lines 255-266): the backtrack level and
\* the swap of the first highest-level literal into position 1.
WatchOrder(lv, learnt0) ==
    LET bt == BtScan(lv, learnt0, 1, [bt_level |-> 0, max_idx |-> 1])
    IN  [learnt   |-> IF Len(learnt0) > 1 THEN Swap(learnt0, 2, bt.max_idx + 1)
                      ELSE learnt0,
         bt_level |-> bt.bt_level]

\* CDCLSolver._analyze: [learnt, bt_level, activity, var_inc, ok]
Analyze(s, conflict_ci) ==
    LET current_level == s.num_decisions
        seed == MarkLits(s, current_level, s.clauses[conflict_ci + 1].lits, 1, 0,
                         [seen |-> {}, activity |-> s.activity, counter |-> 0,
                          learnt |-> <<>>])
        w    == WalkTrail(s, current_level, Len(s.trail) - 1,
                          [seen |-> seed.seen, activity |-> seed.activity,
                           counter |-> seed.counter, learnt |-> seed.learnt,
                           uip_lit |-> 0, ok |-> TRUE])
        learnt0 == <<w.uip_lit>> \o w.learnt
        wo   == WatchOrder(s.levels, learnt0)
    IN  [learnt |-> wo.learnt, bt_level |-> wo.bt_level, activity |-> w.activity,
         var_inc |-> VarDecayActivity(s.var_inc), ok |-> w.ok]

\* ── Backtracking ─────────────────────────────────────────────────────────
\* Faulty variant: the reason of an unwound variable is left in place.
RECURSIVE BacktrackLoopKeepReason(_, _)
BacktrackLoopKeepReason(s, level) ==
    IF Len(s.trail) = 0 \/ s.num_decisions <= level THEN s
    ELSE IF Len(s.trail) <= s.trail_delimiters[s.num_decisions]
    THEN BacktrackLoopKeepReason([s EXCEPT !.num_decisions = @ - 1], level)
    ELSE LET code == s.trail[Len(s.trail)]
             var  == lit_var(code)
         IN  BacktrackLoopKeepReason(
                 [s EXCEPT !.trail = SubSeq(@, 1, Len(@) - 1),
                           !.assigns[var] = UNASSIGNED],
                 level)

\* The first loop of _backtrack.
RECURSIVE BacktrackLoop(_, _)
BacktrackLoop(s, level) ==
    IF Len(s.trail) = 0 \/ s.num_decisions <= level THEN s
    ELSE IF Len(s.trail) <= s.trail_delimiters[s.num_decisions]
    THEN BacktrackLoop([s EXCEPT !.num_decisions = @ - 1], level)
    ELSE LET code == s.trail[Len(s.trail)]
             var  == lit_var(code)
         IN  BacktrackLoop(
                 [s EXCEPT !.trail = SubSeq(@, 1, Len(@) - 1),
                           !.assigns[var] = UNASSIGNED,
                           !.reasons[var] = NoReason],
                 level)

\* Faulty variant: trail_delimiters is not trimmed.
BacktrackNoTrim(s, level) ==
    LET s1 == BacktrackLoop(s, level)
        nd == IF s1.num_decisions > level THEN level ELSE s1.num_decisions
    IN  [s1 EXCEPT !.num_decisions = nd, !.prop_head = Len(s1.trail)]

\* Faulty variant: prop_head is not reset to the trail length.
BacktrackKeepHead(s, level) ==
    LET s1 == BacktrackLoop(s, level)
        nd == IF s1.num_decisions > level THEN level ELSE s1.num_decisions
    IN  [s1 EXCEPT !.num_decisions = nd,
                   !.trail_delimiters = SubSeq(@, 1, IF nd < Len(@) THEN nd ELSE Len(@))]

\* CDCLSolver._backtrack
Backtrack(s, level) ==
    LET s1 == BacktrackLoop(s, level)
        nd == IF s1.num_decisions > level THEN level ELSE s1.num_decisions
    IN  [s1 EXCEPT !.num_decisions = nd,
                   !.trail_delimiters = SubSeq(@, 1, IF nd < Len(@) THEN nd ELSE Len(@)),
                   !.prop_head = Len(s1.trail)]

\* ── solve(): initial unit clauses ────────────────────────────────────────
\* Faulty variant: a unit clause whose literal is already assigned, TRUE
\* included, is taken for a contradiction (!= UNASSIGNED instead of == 0).
RECURSIVE PreflightLoopAnyAssigned(_, _)
PreflightLoopAnyAssigned(s, i) ==
    IF i >= Len(s.clauses) THEN [s |-> s, unsat |-> FALSE]
    ELSE LET c == s.clauses[i + 1] IN
         IF c.size = 0 THEN [s |-> s, unsat |-> TRUE]
         ELSE IF c.size = 1 /\ LitValue(s.assigns, c.lits[1]) # UNASSIGNED
         THEN [s |-> s, unsat |-> TRUE]
         ELSE IF c.size = 1
         THEN PreflightLoopAnyAssigned(Enqueue(s, c.lits[1], i), i + 1)
         ELSE PreflightLoopAnyAssigned(s, i + 1)

\* Faulty variant: an empty clause is skipped instead of ending the scan.
RECURSIVE PreflightLoopSkipEmpty(_, _)
PreflightLoopSkipEmpty(s, i) ==
    IF i >= Len(s.clauses) THEN [s |-> s, unsat |-> FALSE]
    ELSE LET c == s.clauses[i + 1] IN
         IF c.size = 1 /\ LitValue(s.assigns, c.lits[1]) = 0
         THEN [s |-> s, unsat |-> TRUE]
         ELSE IF c.size = 1 /\ LitValue(s.assigns, c.lits[1]) = UNASSIGNED
         THEN PreflightLoopSkipEmpty(Enqueue(s, c.lits[1], i), i + 1)
         ELSE PreflightLoopSkipEmpty(s, i + 1)

\* The preflight loop of solve (lines 315-322): [s, unsat].
RECURSIVE PreflightLoop(_, _)
PreflightLoop(s, i) ==
    IF i >= Len(s.clauses) THEN [s |-> s, unsat |-> FALSE]
    ELSE LET c == s.clauses[i + 1] IN
         IF c.size = 0 THEN [s |-> s, unsat |-> TRUE]
         ELSE IF c.size = 1 /\ LitValue(s.assigns, c.lits[1]) = 0
         THEN [s |-> s, unsat |-> TRUE]
         ELSE IF c.size = 1 /\ LitValue(s.assigns, c.lits[1]) = UNASSIGNED
         THEN PreflightLoop(Enqueue(s, c.lits[1], i), i + 1)
         ELSE PreflightLoop(s, i + 1)


\* ── Hardware BCP accelerator (hardware/modules, hardware/memory) ─────────
\* The accelerator is a synchronous circuit: h holds its registers and
\* memories, inp the values the host drives on its input ports during one
\* clock cycle, and Tick(h, inp) is the state after the next clock edge.
MAX_K == 5
MAX_WATCH_LEN == 100
FIFO_DEPTH == 16
BUF_DEPTH == 2
HW_UNASSIGNED == 0
HW_FALSE == 1
HW_TRUE == 2
SATISFIED == 0
UNIT == 1
CONFLICT == 2
UNRESOLVED == 3
\* in_flight is Signal(range(MAX_WATCH_LEN + 1)): 7 bits.
InFlightMod == 128
\* lit_idx and unassigned_count are 3-bit registers.
LitIdxMod == 8

\* A memory is a function on the addresses written so far; every other
\* address still holds its reset value.
MemRead(m, a, reset) == IF a \in DOMAIN m THEN m[a] ELSE reset

MemWrite(m, a, d) == [x \in (DOMAIN m) \cup {a} |-> IF x = a THEN d ELSE m[x]]

\* An 84-bit clause word: sat_bit, size, lit0..lit4.
ZeroClause == [sat_bit |-> 0, size |-> 0, lits |-> [k \in 1..MAX_K |-> 0]]

ZeroImpl == [var |-> 0, value |-> 0, reason |-> 0]

\* The input ports of BCPAccelerator with nothing asserted.
HostIdle ==
    [start |-> FALSE, false_lit |-> 0, conflict_ack |-> FALSE, impl_ready |-> FALSE,
     clause_wr_en |-> FALSE, clause_wr_addr |-> 0, clause_wr_data |-> ZeroClause,
     wl_wr_en |-> FALSE, wl_wr_len_en |-> FALSE, wl_wr_lit |-> 0, wl_wr_idx |-> 0,
     wl_wr_data |-> 0, wl_wr_len |-> 0,
     assign_wr_en |-> FALSE, assign_wr_addr |-> 0, assign_wr_data |-> 0]

\* The accelerator after elaboration: every register 0, every FSM in its
\* first state, every memory at its reset value.
HwReset ==
    [top  |-> [fsm |-> "IDLE", in_flight |-> 0, conflict_reg |-> FALSE,
               conflict_cid_reg |-> 0, wlm_done_seen |-> FALSE],
     wlm  |-> [state |-> "IDLE", stored_lit |-> 0, watch_len |-> 0, next_idx |-> 0,
               output_count |-> 0, clause_id_reg |-> 0, first_read |-> FALSE],
     pf   |-> [pipe1_valid |-> FALSE, pipe1_cid |-> 0, pipe2_valid |-> FALSE,
               pipe2_cid |-> 0,
               buf |-> [i \in 0..(BUF_DEPTH - 1) |-> [cid |-> 0, rec |-> ZeroClause]],
               wr_ptr |-> 0, rd_ptr |-> 0, buf_count |-> 0],
     ev   |-> [state |-> "IDLE", clause_id_reg |-> 0, size_reg |-> 0,
               satisfied |-> FALSE, unassigned_count |-> 0,
               last_unassigned_lit |-> 0, lit_idx |-> 0,
               lit_regs |-> [k \in 1..MAX_K |-> 0]],
     fifo |-> [mem |-> [i \in 0..(FIFO_DEPTH - 1) |-> ZeroImpl],
               wr_ptr |-> 0, rd_ptr |-> 0, count |-> 0],
     cmem |-> [mem |-> <<>>, rd_data |-> ZeroClause, stage2 |-> ZeroClause],
     wmem |-> [len_mem |-> <<>>, cid_mem |-> <<>>, rd_len |-> 0, rd_data |-> 0,
               stage2_len |-> 0, stage2_data |-> 0],
     amem |-> <<>>]

\* ── Combinational signals ────────────────────────────────────────────────
fifo_full(h) == h.fifo.count = FIFO_DEPTH

fifo_empty(h) == h.fifo.count = 0

pipeline_stall(h, inp) == fifo_full(h) \/ (h.top.conflict_reg /\ ~inp.conflict_ack)

\* The top-level FSM is in IDLE and sees start: it drives fsm_starting,
\* watch_mgr.start and the flush of prefetcher and evaluator.
fsm_starting(h, inp) == h.top.fsm = "IDLE" /\ inp.start

\* Watch list manager outputs.
wlm_clause_id_valid(h) == h.wlm.state = "PRESENT"

wlm_clause_id(h) == IF h.wlm.state = "PRESENT" THEN h.wlm.clause_id_reg ELSE 0

wlm_done(h) == h.wlm.state = "DONE"

\* Prefetcher handshake: its own ready is the occupancy test; the ready the
\* watch list manager sees is gated by the stall.
occupancy(h) ==
    h.pf.buf_count + (IF h.pf.pipe1_valid THEN 1 ELSE 0) + (IF h.pf.pipe2_valid THEN 1 ELSE 0)

pf_clause_id_ready(h) == occupancy(h) < BUF_DEPTH

wlm_clause_id_ready(h, inp) == pf_clause_id_ready(h) /\ ~pipeline_stall(h, inp)

accept_input(h) == wlm_clause_id_valid(h) /\ pf_clause_id_ready(h)

meta_valid(h) == h.pf.buf_count > 0

\* Evaluator handshake: its own meta_ready is "state is IDLE"; the ready the
\* prefetcher sees is gated by the stall.
ev_meta_ready(h) == h.ev.state = "IDLE"

consume_output(h, inp) == meta_valid(h) /\ ev_meta_ready(h) /\ ~pipeline_stall(h, inp)

result_valid(h) == h.ev.state = "OUTPUT"

\* The status decided by the number of UNASSIGNED literals before the
\* satisfied flag is looked at.
ResultStatusCountFirst(h) ==
    IF h.ev.state # "OUTPUT" THEN SATISFIED
    ELSE IF h.ev.unassigned_count = 1 THEN UNIT
    ELSE IF h.ev.satisfied THEN SATISFIED
    ELSE IF h.ev.unassigned_count = 0 THEN CONFLICT
    ELSE UNRESOLVED

result_status(h) ==
    IF h.ev.state # "OUTPUT" THEN SATISFIED
    ELSE IF h.ev.satisfied THEN SATISFIED
    ELSE IF h.ev.unassigned_count = 0 THEN CONFLICT
    ELSE IF h.ev.unassigned_count = 1 THEN UNIT
    ELSE UNRESOLVED

evaluator_result_ready(h) == IF result_status(h) = UNIT THEN ~fifo_full(h) ELSE TRUE

push_valid(h) == result_valid(h) /\ result_status(h) = UNIT /\ evaluator_result_ready(h)

do_push(h) == push_valid(h) /\ ~fifo_full(h)

do_pop(h, inp) == inp.impl_ready /\ ~fifo_empty(h)

do_inc(h, inp) == wlm_clause_id_valid(h) /\ wlm_clause_id_ready(h, inp)

do_dec(h) == result_valid(h) /\ evaluator_result_ready(h)

\* The read the watch list manager issues this cycle, if any.
wl_rd_en(h, inp) ==
    \/ h.wlm.state = "IDLE" /\ fsm_starting(h, inp)
    \/ /\ h.wlm.state = "PRESENT"
       /\ wlm_clause_id_ready(h, inp)
       /\ h.wlm.output_count + 1 < h.wlm.watch_len

wl_rd_lit(h, inp) == IF h.wlm.state = "IDLE" THEN inp.false_lit ELSE h.wlm.stored_lit

wl_rd_idx(h) == IF h.wlm.state = "IDLE" THEN 0 ELSE h.wlm.next_idx

\* Outputs of the accelerator read by the host.
hw_done(h) == h.top.fsm = "DONE"

hw_conflict(h) == h.top.conflict_reg

impl_valid(h) == ~fifo_empty(h)

FifoHead(h) == h.fifo.mem[h.fifo.rd_ptr]

\* The entries of the implication FIFO, oldest first.
FifoContents(h) ==
    [i \in 1..h.fifo.count |-> h.fifo.mem[(h.fifo.rd_ptr + i - 1) % FIFO_DEPTH]]

\* ── Clocked updates, one operator per module ─────────────────────────────
\* WatchListManager FSM: IDLE -> READ_1 -> READ_2 -> PRESENT -> ... -> DONE.
WatchMgrNext(h, inp) ==
    LET w == h.wlm IN
    CASE w.state = "IDLE" ->
           IF fsm_starting(h, inp)
           THEN [w EXCEPT !.stored_lit = inp.false_lit, !.next_idx = 1,
                          !.output_count = 0, !.first_read = TRUE, !.state = "READ_1"]
           ELSE w
      [] w.state = "READ_1" -> [w EXCEPT !.state = "READ_2"]
      [] w.state = "READ_2" ->
           IF w.first_read
           THEN IF h.wmem.stage2_len = 0
                THEN [w EXCEPT !.watch_len = h.wmem.stage2_len, !.first_read = FALSE,
                               !.state = "DONE"]
                ELSE [w EXCEPT !.watch_len = h.wmem.stage2_len, !.first_read = FALSE,
                               !.clause_id_reg = h.wmem.stage2_data, !.state = "PRESENT"]
           ELSE [w EXCEPT !.clause_id_reg = h.wmem.stage2_data, !.state = "PRESENT"]
      [] w.state = "PRESENT" ->
           IF wlm_clause_id_ready(h, inp)
           THEN IF w.output_count + 1 >= w.watch_len
                THEN [w EXCEPT !.output_count = @ + 1, !.state = "DONE"]
                ELSE [w EXCEPT !.output_count = @ + 1, !.next_idx = @ + 1,
                               !.state = "READ_1"]
           ELSE w
      [] w.state = "DONE" -> [w EXCEPT !.state = "IDLE"]

\* WatchListMemory: synchronous write ports, synchronous read port with
\* enable, one more register stage (2-cycle read latency).
WatchMemNext(h, inp) ==
    LET m  == h.wmem
        en == wl_rd_en(h, inp)
    IN  [len_mem |-> IF inp.wl_wr_len_en
                     THEN MemWrite(m.len_mem, inp.wl_wr_lit, inp.wl_wr_len)
                     ELSE m.len_mem,
         cid_mem |-> IF inp.wl_wr_en
                     THEN MemWrite(m.cid_mem,
                                   inp.wl_wr_lit * MAX_WATCH_LEN + inp.wl_wr_idx,
                                   inp.wl_wr_data)
                     ELSE m.cid_mem,
         rd_len  |-> IF en THEN MemRead(m.len_mem, wl_rd_lit(h, inp), 0) ELSE m.rd_len,
         rd_data |-> IF en
                     THEN MemRead(m.cid_mem,
                                  wl_rd_lit(h, inp) * MAX_WATCH_LEN + wl_rd_idx(h), 0)
                     ELSE m.rd_data,
         stage2_len  |-> m.rd_len,
         stage2_data |-> m.rd_data]

\* ClauseMemory by its own ports: synchronous write port, synchronous read
\* port with enable, one more register stage.
CmemStep(m, wr_en, wr_addr, wr_data, rd_en, rd_addr) ==
    [mem     |-> IF wr_en THEN MemWrite(m.mem, wr_addr, wr_data) ELSE m.mem,
     rd_data |-> IF rd_en THEN MemRead(m.mem, rd_addr, ZeroClause) ELSE m.rd_data,
     stage2  |-> m.rd_data]

\* ClauseMemory as wired in the accelerator: written by the host, read by
\* the prefetcher.
ClauseMemNext(h, inp) ==
    CmemStep(h.cmem, inp.clause_wr_en, inp.clause_wr_addr, inp.clause_wr_data,
             accept_input(h), wlm_clause_id(h))

\* AssignmentMemory: synchronous write port (the read port is combinational).
AssignMemNext(h, inp) ==
    IF inp.assign_wr_en
    THEN MemWrite(h.amem, inp.assign_wr_addr, inp.assign_wr_data)
    ELSE h.amem

\* The prefetcher writing every arriving record into buffer slot 0.
PfStepOneSlot(p, rd, valid, cid_in, meta_ready, flush) ==
    LET accept == valid /\ (p.buf_count + (IF p.pipe1_valid THEN 1 ELSE 0)
                              + (IF p.pipe2_valid THEN 1 ELSE 0) < BUF_DEPTH)
        cons   == p.buf_count > 0 /\ meta_ready
    IN  IF flush
        THEN [p EXCEPT !.pipe1_valid = FALSE, !.pipe2_valid = FALSE,
                       !.buf_count = 0, !.wr_ptr = 0, !.rd_ptr = 0]
        ELSE [p EXCEPT
                !.pipe2_valid = p.pipe1_valid,
                !.pipe2_cid = p.pipe1_cid,
                !.pipe1_valid = accept,
                !.pipe1_cid = cid_in,
                !.buf = IF p.pipe2_valid
                        THEN [@ EXCEPT ![0] = [cid |-> p.pipe2_cid, rec |-> rd]]
                        ELSE @,
                !.wr_ptr = IF p.pipe2_valid THEN 1 - @ ELSE @,
                !.buf_count = IF p.pipe2_valid /\ ~cons THEN @ + 1
                              ELSE IF cons /\ ~p.pipe2_valid THEN @ - 1
                              ELSE @,
                !.rd_ptr = IF cons THEN 1 - @ ELSE @]

\* ClausePrefetcher by its own ports: two in-flight read slots and a 2-entry
\* output buffer. rd is the read data of the clause memory, valid and cid_in
\* the upstream port, meta_ready the downstream ready.
PfStep(p, rd, valid, cid_in, meta_ready, flush) ==
    LET accept == valid /\ (p.buf_count + (IF p.pipe1_valid THEN 1 ELSE 0)
                              + (IF p.pipe2_valid THEN 1 ELSE 0) < BUF_DEPTH)
        cons   == p.buf_count > 0 /\ meta_ready
    IN  IF flush
        THEN [p EXCEPT !.pipe1_valid = FALSE, !.pipe2_valid = FALSE,
                       !.buf_count = 0, !.wr_ptr = 0, !.rd_ptr = 0]
        ELSE [p EXCEPT
                !.pipe2_valid = p.pipe1_valid,
                !.pipe2_cid = p.pipe1_cid,
                !.pipe1_valid = accept,
                !.pipe1_cid = cid_in,
                !.buf = IF p.pipe2_valid
                        THEN [@ EXCEPT ![p.wr_ptr] = [cid |-> p.pipe2_cid, rec |-> rd]]
                        ELSE @,
                !.wr_ptr = IF p.pipe2_valid THEN 1 - @ ELSE @,
                !.buf_count = IF p.pipe2_valid /\ ~cons THEN @ + 1
                              ELSE IF cons /\ ~p.pipe2_valid THEN @ - 1
                              ELSE @,
                !.rd_ptr = IF cons THEN 1 - @ ELSE @]

\* ClausePrefetcher as wired in the accelerator: fed by the watch-list
\* manager, read by the evaluator with the ready gated by the stall, flushed
\* by fsm_starting.
PrefetcherNext(h, inp) ==
    PfStep(h.pf, h.cmem.stage2, wlm_clause_id_valid(h), wlm_clause_id(h),
           ev_meta_ready(h) /\ ~pipeline_stall(h, inp), fsm_starting(h, inp))

\* ClauseEvaluator FSM: IDLE -> EVAL (one literal per cycle) -> OUTPUT.
\* In IDLE it latches the clause at the head of the prefetcher buffer
\* whenever meta_valid is high.
EvaluatorNext(h, inp) ==
    LET e     == h.ev
        flush == fsm_starting(h, inp)
        head  == h.pf.buf[h.pf.rd_ptr]
    IN
    CASE e.state = "IDLE" ->
           IF flush \/ ~meta_valid(h) THEN e
           ELSE IF head.rec.sat_bit = 1
           THEN [e EXCEPT !.clause_id_reg = head.cid, !.size_reg = head.rec.size,
                          !.lit_regs = head.rec.lits, !.unassigned_count = 0,
                          !.last_unassigned_lit = 0, !.satisfied = TRUE,
                          !.state = "OUTPUT"]
           ELSE [e EXCEPT !.clause_id_reg = head.cid, !.size_reg = head.rec.size,
                          !.lit_regs = head.rec.lits, !.unassigned_count = 0,
                          !.last_unassigned_lit = 0, !.satisfied = FALSE,
                          !.lit_idx = 0, !.state = "EVAL"]
      [] e.state = "EVAL" ->
           IF flush THEN [e EXCEPT !.state = "IDLE"]
           ELSE LET current_lit == e.lit_regs[(IF e.lit_idx < MAX_K THEN e.lit_idx
                                               ELSE MAX_K - 1) + 1]
                    assign_val  == MemRead(h.amem, current_lit \div 2, HW_UNASSIGNED)
                    lit_true    == \/ current_lit % 2 = 0 /\ assign_val = HW_TRUE
                                   \/ current_lit % 2 = 1 /\ assign_val = HW_FALSE
                    lit_unassigned == assign_val = HW_UNASSIGNED
                    last        == e.lit_idx = e.size_reg - 1
                IN  [e EXCEPT
                       !.satisfied = IF lit_true THEN TRUE ELSE @,
                       !.unassigned_count = IF lit_unassigned
                                            THEN (@ + 1) % LitIdxMod ELSE @,
                       !.last_unassigned_lit = IF lit_unassigned THEN current_lit ELSE @,
                       !.lit_idx = IF last THEN @ ELSE (@ + 1) % LitIdxMod,
                       !.state = IF last THEN "OUTPUT" ELSE "EVAL"]
      [] e.state = "OUTPUT" ->
           IF flush \/ evaluator_result_ready(h) THEN [e EXCEPT !.state = "IDLE"] ELSE e

\* The FIFO taking a push although it is full.
FifoStepOverrun(f, pv, word, pop_ready) ==
    LET pop == pop_ready /\ f.count # 0
    IN  [mem    |-> IF pv THEN [f.mem EXCEPT ![f.wr_ptr] = word] ELSE f.mem,
         wr_ptr |-> IF pv THEN (f.wr_ptr + 1) % FIFO_DEPTH ELSE f.wr_ptr,
         rd_ptr |-> IF pop THEN (f.rd_ptr + 1) % FIFO_DEPTH ELSE f.rd_ptr,
         count  |-> IF pv /\ ~pop THEN f.count + 1
                    ELSE IF pop /\ ~pv THEN f.count - 1
                    ELSE f.count]

\* ImplicationFIFO, the module by its own ports: circular buffer of
\* (var, value, reason) words. [f: wr_ptr, rd_ptr, mem, count]
FifoStep(f, pv, word, pop_ready) ==
    LET push == pv /\ f.count # FIFO_DEPTH
        pop  == pop_ready /\ f.count # 0
    IN  [mem    |-> IF push THEN [f.mem EXCEPT ![f.wr_ptr] = word] ELSE f.mem,
         wr_ptr |-> IF push THEN (IF f.wr_ptr = FIFO_DEPTH - 1 THEN 0 ELSE f.wr_ptr + 1)
                    ELSE f.wr_ptr,
         rd_ptr |-> IF pop THEN (IF f.rd_ptr = FIFO_DEPTH - 1 THEN 0 ELSE f.rd_ptr + 1)
                    ELSE f.rd_ptr,
         count  |-> IF push /\ ~pop THEN f.count + 1
                    ELSE IF pop /\ ~push THEN f.count - 1
                    ELSE f.count]

\* ImplicationFIFO as wired in the accelerator: the evaluator's UNIT result
\* is pushed, the host's impl_ready pops.
FifoNext(h, inp) ==
    FifoStep(h.fifo, push_valid(h),
             [var    |-> h.ev.last_unassigned_lit \div 2,
              value  |-> 1 - (h.ev.last_unassigned_lit % 2),
              reason |-> h.ev.clause_id_reg],
             inp.impl_ready)

\* The control logic with the conflict latch open to every CONFLICT result.
TopNextOverwrite(h, inp) ==
    LET t        == h.top
        starting == fsm_starting(h, inp)
        inc      == do_inc(h, inp)
        dec      == do_dec(h)
        latch    == /\ result_valid(h)
                    /\ result_status(h) = CONFLICT
                    /\ evaluator_result_ready(h)
    IN  [fsm |->
            CASE t.fsm = "IDLE"   -> IF inp.start THEN "ACTIVE" ELSE "IDLE"
              [] t.fsm = "ACTIVE" -> IF t.conflict_reg THEN "DONE"
                                     ELSE IF (t.wlm_done_seen \/ wlm_done(h))
                                             /\ t.in_flight = 0 THEN "DONE"
                                     ELSE "ACTIVE"
              [] t.fsm = "DONE"   -> IF t.conflict_reg /\ ~inp.conflict_ack
                                     THEN "DONE" ELSE "IDLE",
         in_flight |->
            IF starting THEN 0
            ELSE IF inc /\ ~dec THEN (t.in_flight + 1) % InFlightMod
            ELSE IF dec /\ ~inc THEN (t.in_flight - 1) % InFlightMod
            ELSE t.in_flight,
         conflict_reg |->
            IF starting THEN FALSE ELSE IF latch THEN TRUE ELSE t.conflict_reg,
         conflict_cid_reg |->
            IF starting THEN 0 ELSE IF latch THEN h.ev.clause_id_reg
            ELSE t.conflict_cid_reg,
         wlm_done_seen |->
            IF starting THEN FALSE ELSE IF wlm_done(h) THEN TRUE ELSE t.wlm_done_seen]

\* The control logic with a start pulse in DONE taken as a restart.
TopNextRestart(h, inp) ==
    LET t        == h.top
        starting == fsm_starting(h, inp)
        inc      == do_inc(h, inp)
        dec      == do_dec(h)
        latch    == /\ result_valid(h)
                    /\ result_status(h) = CONFLICT
                    /\ evaluator_result_ready(h)
                    /\ ~t.conflict_reg
    IN  [fsm |->
            CASE t.fsm = "IDLE"   -> IF inp.start THEN "ACTIVE" ELSE "IDLE"
              [] t.fsm = "ACTIVE" -> IF t.conflict_reg THEN "DONE"
                                     ELSE IF (t.wlm_done_seen \/ wlm_done(h))
                                             /\ t.in_flight = 0 THEN "DONE"
                                     ELSE "ACTIVE"
              [] t.fsm = "DONE"   -> IF inp.start THEN "ACTIVE"
                                     ELSE IF t.conflict_reg /\ ~inp.conflict_ack
                                     THEN "DONE" ELSE "IDLE",
         in_flight |->
            IF starting THEN 0
            ELSE IF inc /\ ~dec THEN (t.in_flight + 1) % InFlightMod
            ELSE IF dec /\ ~inc THEN (t.in_flight - 1) % InFlightMod
            ELSE t.in_flight,
         conflict_reg |->
            IF starting THEN FALSE ELSE IF latch THEN TRUE ELSE t.conflict_reg,
         conflict_cid_reg |->
            IF starting THEN 0 ELSE IF latch THEN h.ev.clause_id_reg
            ELSE t.conflict_cid_reg,
         wlm_done_seen |->
            IF starting THEN FALSE ELSE IF wlm_done(h) THEN TRUE ELSE t.wlm_done_seen]

\* BCPAccelerator control: in-flight counter, conflict latch, WLM-done
\* latch and the top-level FSM IDLE -> ACTIVE -> DONE -> IDLE.
TopNext(h, inp) ==
    LET t        == h.top
        starting == fsm_starting(h, inp)
        inc      == do_inc(h, inp)
        dec      == do_dec(h)
        latch    == /\ result_valid(h)
                    /\ result_status(h) = CONFLICT
                    /\ evaluator_result_ready(h)
                    /\ ~t.conflict_reg
    IN  [fsm |->
            CASE t.fsm = "IDLE"   -> IF inp.start THEN "ACTIVE" ELSE "IDLE"
              [] t.fsm = "ACTIVE" -> IF t.conflict_reg THEN "DONE"
                                     ELSE IF (t.wlm_done_seen \/ wlm_done(h))
                                             /\ t.in_flight = 0 THEN "DONE"
                                     ELSE "ACTIVE"
              [] t.fsm = "DONE"   -> IF t.conflict_reg /\ ~inp.conflict_ack
                                     THEN "DONE" ELSE "IDLE",
         in_flight |->
            IF starting THEN 0
            ELSE IF inc /\ ~dec THEN (t.in_flight + 1) % InFlightMod
            ELSE IF dec /\ ~inc THEN (t.in_flight - 1) % InFlightMod
            ELSE t.in_flight,
         conflict_reg |->
            IF starting THEN FALSE ELSE IF latch THEN TRUE ELSE t.conflict_reg,
         conflict_cid_reg |->
            IF starting THEN 0 ELSE IF latch THEN h.ev.clause_id_reg
            ELSE t.conflict_cid_reg,
         wlm_done_seen |->
            IF starting THEN FALSE ELSE IF wlm_done(h) THEN TRUE ELSE t.wlm_done_seen]

\* One clock edge of the whole accelerator.
Tick(h, inp) ==
    [top  |-> TopNext(h, inp),
     wlm  |-> WatchMgrNext(h, inp),
     pf   |-> PrefetcherNext(h, inp),
     ev   |-> EvaluatorNext(h, inp),
     fifo |-> FifoNext(h, inp),
     cmem |-> ClauseMemNext(h, inp),
     wmem |-> WatchMemNext(h, inp),
     amem |-> AssignMemNext(h, inp)]

\* ── Host interface (hardware/communication/host_interface.py) ───────────
\* HostInterface decodes the byte stream of the UART receiver into write and
\* start pulses and serialises the results of a round for the transmitter.
CMD_WRITE_CLAUSE == 1
CMD_WRITE_WL_ENTRY == 2
CMD_WRITE_WL_LEN == 3
CMD_WRITE_ASSIGN == 4
CMD_BCP_START == 5
CMD_RESET_STATE == 6
RSP_IMPLICATION == 176
RSP_DONE_OK == 192
RSP_DONE_CONF == 193
MAX_PAYLOAD == 14
MAX_CLAUSES == 8192
NUM_LITERALS == 1024
MAX_VARS == 512

\* The two bytes taken in the opposite order.
Cat2Swapped(lo, hi) == lo * 256 + hi

\* Cat(lo, hi) of two byte registers.
Cat2(lo, hi) == hi * 256 + lo

\* The registers of HostInterface after elaboration. tx_shift is kept as
\* its six bytes, the byte at bits [0:8] first.
HostIfReset ==
    [fsm |-> "CMD_WAIT", cmd |-> 0, payload_len |-> 0, buf_idx |-> 0,
     buf |-> [i \in 0..(MAX_PAYLOAD - 1) |-> 0],
     tx_shift |-> <<0, 0, 0, 0, 0, 0>>, tx_count |-> 0,
     conflict_reg |-> FALSE, conflict_id_reg |-> 0]

\* The ports HostInterface drives towards the accelerator in this cycle
\* (CMD_EXEC and the last byte of IMPL_SEND); every port is cut to the
\* width of its signal. BCPTop leaves conflict_ack unconnected.
HostIfToBcp(hi, tx_ready) ==
    LET b == hi.buf IN
    IF hi.fsm = "CMD_EXEC" /\ hi.cmd = CMD_WRITE_CLAUSE
    THEN [HostIdle EXCEPT
            !.clause_wr_en = TRUE,
            !.clause_wr_addr = Cat2(b[1], b[0]) % MAX_CLAUSES,
            !.clause_wr_data =
                [sat_bit |-> b[3] % 2, size |-> b[2] % 8,
                 lits |-> [k \in 1..MAX_K |-> Cat2(b[2 * k + 3], b[2 * k + 2])]]]
    ELSE IF hi.fsm = "CMD_EXEC" /\ hi.cmd = CMD_WRITE_WL_ENTRY
    THEN [HostIdle EXCEPT
            !.wl_wr_en = TRUE,
            !.wl_wr_lit = Cat2(b[1], b[0]) % NUM_LITERALS,
            !.wl_wr_idx = b[2] % 128,
            !.wl_wr_data = Cat2(b[4], b[3]) % MAX_CLAUSES]
    ELSE IF hi.fsm = "CMD_EXEC" /\ hi.cmd = CMD_WRITE_WL_LEN
    THEN [HostIdle EXCEPT
            !.wl_wr_len_en = TRUE,
            !.wl_wr_lit = Cat2(b[1], b[0]) % NUM_LITERALS,
            !.wl_wr_len = b[2] % 128]
    ELSE IF hi.fsm = "CMD_EXEC" /\ hi.cmd = CMD_WRITE_ASSIGN
    THEN [HostIdle EXCEPT
            !.assign_wr_en = TRUE,
            !.assign_wr_addr = Cat2(b[1], b[0]) % MAX_VARS,
            !.assign_wr_data = b[2] % 4]
    ELSE IF hi.fsm = "CMD_EXEC" /\ hi.cmd = CMD_BCP_START
    THEN [HostIdle EXCEPT
            !.start = TRUE,
            !.false_lit = Cat2(b[1], b[0]) % NUM_LITERALS]
    ELSE IF hi.fsm = "IMPL_SEND" /\ tx_ready /\ hi.tx_count = 1
    THEN [HostIdle EXCEPT !.impl_ready = TRUE]
    ELSE HostIdle

\* tx_valid and tx_data towards the UART transmitter.
tx_valid(hi) == hi.fsm \in {"IMPL_SEND", "DONE_SEND"}

tx_data(hi) == IF tx_valid(hi) THEN hi.tx_shift[1] ELSE 0

\* payload_len and the next state for a command byte seen in CMD_WAIT.
PayloadLenOf(byte) ==
    IF byte = CMD_WRITE_CLAUSE THEN 14
    ELSE IF byte = CMD_WRITE_WL_ENTRY THEN 5
    ELSE IF byte \in {CMD_WRITE_WL_LEN, CMD_WRITE_ASSIGN} THEN 3
    ELSE IF byte = CMD_BCP_START THEN 2
    ELSE 0

\* One clock edge of HostInterface; h is the accelerator in this cycle
\* (done, conflict, conflict_clause_id and the FIFO head are its outputs).
HostIfNext(hi, rx_valid, rx_data, tx_ready, h) ==
    IF hi.fsm = "CMD_WAIT"
    THEN IF rx_valid
         THEN [hi EXCEPT !.cmd = rx_data, !.buf_idx = 0,
                         !.payload_len = PayloadLenOf(rx_data),
                         !.fsm = IF PayloadLenOf(rx_data) > 0
                                 THEN "PAYLOAD_RECV" ELSE "CMD_EXEC"]
         ELSE hi
    ELSE IF hi.fsm = "PAYLOAD_RECV"
    THEN IF rx_valid
         THEN IF hi.buf_idx + 1 >= hi.payload_len
              THEN [hi EXCEPT !.buf[hi.buf_idx] = rx_data, !.fsm = "CMD_EXEC"]
              ELSE [hi EXCEPT !.buf[hi.buf_idx] = rx_data, !.buf_idx = @ + 1]
         ELSE hi
    ELSE IF hi.fsm = "CMD_EXEC"
    THEN [hi EXCEPT !.fsm = IF hi.cmd = CMD_BCP_START THEN "BCP_WAIT" ELSE "CMD_WAIT"]
    ELSE IF hi.fsm = "BCP_WAIT"
    THEN IF hw_done(h)
         THEN [hi EXCEPT !.conflict_reg = hw_conflict(h),
                         !.conflict_id_reg = h.top.conflict_cid_reg,
                         !.fsm = "IMPL_CHECK"]
         ELSE hi
    ELSE IF hi.fsm = "IMPL_CHECK"
    THEN IF impl_valid(h)
         THEN LET e == FifoHead(h) IN
              [hi EXCEPT !.tx_shift = <<RSP_IMPLICATION, e.var \div 256, e.var % 256,
                                        e.value, e.reason \div 256, e.reason % 256>>,
                         !.tx_count = 6,
                         !.fsm = "IMPL_SEND"]
         ELSE [hi EXCEPT !.tx_shift =
                             <<IF hi.conflict_reg THEN RSP_DONE_CONF ELSE RSP_DONE_OK,
                               hi.conflict_id_reg \div 256, hi.conflict_id_reg % 256,
                               0, 0, 0>>,
                         !.tx_count = 4,
                         !.fsm = "DONE_SEND"]
    ELSE \* IMPL_SEND, DONE_SEND
         IF tx_ready
         THEN [hi EXCEPT !.tx_shift = Tail(@) \o <<0>>,
                         !.tx_count = (@ + 7) % 8,
                         !.fsm = IF hi.tx_count = 1
                                 THEN (IF hi.fsm = "IMPL_SEND" THEN "IMPL_CHECK"
                                       ELSE "CMD_WAIT")
                                 ELSE @]
         ELSE hi

\* One clock edge of BCPTop seen from the byte interfaces of the two UARTs:
\* HostInterface and BCPAccelerator wired as in top.py.
TopTick(h, hi, rx_valid, rx_data, tx_ready) ==
    [h  |-> Tick(h, HostIfToBcp(hi, tx_ready)),
     hi |-> HostIfNext(hi, rx_valid, rx_data, tx_ready, h)]

\* ── Hardware bridge (bench/hw_bcp_sim.py) ────────────────────────────────
\* Each helper of HWBCPSimulator sets input ports, awaits one clock edge and
\* clears the enable again: one Tick with that enable asserted.
max_cycles == 5000

sw_to_hw_assign(val) ==
    IF val = 1 THEN HW_TRUE ELSE IF val = 0 THEN HW_FALSE ELSE HW_UNASSIGNED

\* lits[:size], padded with 0 up to MAX_K literals.
PadLits(lits, size) == [k \in 1..MAX_K |-> IF k <= size /\ k <= Len(lits) THEN lits[k] ELSE 0]

\* HWBCPSimulator._write_clause
WriteClause(h, cid, size, sat_bit, lits) ==
    Tick(h, [HostIdle EXCEPT !.clause_wr_en = TRUE, !.clause_wr_addr = cid,
                             !.clause_wr_data = [sat_bit |-> sat_bit, size |-> size,
                                                 lits |-> PadLits(lits, size)]])

RECURSIVE WriteWatchEntries(_, _, _, _)
WriteWatchEntries(h, lit_code, clause_ids, idx) ==
    IF idx >= Len(clause_ids) THEN h
    ELSE WriteWatchEntries(
             Tick(h, [HostIdle EXCEPT !.wl_wr_en = TRUE, !.wl_wr_lit = lit_code,
                                      !.wl_wr_idx = idx,
                                      !.wl_wr_data = clause_ids[idx + 1]]),
             lit_code, clause_ids, idx + 1)

\* HWBCPSimulator._write_watch_list: the length, then one entry per cycle.
WriteWatchList(h, lit_code, clause_ids) ==
    WriteWatchEntries(
        Tick(h, [HostIdle EXCEPT !.wl_wr_len_en = TRUE, !.wl_wr_lit = lit_code,
                                 !.wl_wr_len = Len(clause_ids)]),
        lit_code, clause_ids, 0)

\* HWBCPSimulator._write_assign
WriteAssign(h, var, hw_val) ==
    Tick(h, [HostIdle EXCEPT !.assign_wr_en = TRUE, !.assign_wr_addr = var,
                             !.assign_wr_data = hw_val])

\* HWBCPSimulator._start_bcp
StartBcp(h, false_lit) ==
    Tick(h, [HostIdle EXCEPT !.start = TRUE, !.false_lit = false_lit])

\* The host going on without polling done.
WaitDoneNoPoll(h, i) == [h |-> h, done |-> TRUE]

\* HWBCPSimulator._wait_done: poll done, at most max_cycles times.
\* [h, done]; done = FALSE is the RuntimeError "BCP timed out".
RECURSIVE WaitDone(_, _)
WaitDone(h, i) ==
    IF i >= max_cycles THEN [h |-> h, done |-> FALSE]
    ELSE IF hw_done(h) THEN [h |-> h, done |-> TRUE]
    ELSE WaitDone(Tick(h, HostIdle), i + 1)

\* HWBCPSimulator._pop_implication: the state after the pop cycle (the entry
\* popped is FifoHead of the state before).
PopImplication(h) == Tick(h, [HostIdle EXCEPT !.impl_ready = TRUE])

\* _hw_init, step 1: one clause word per clause.
RECURSIVE UploadClauses(_, _, _)
UploadClauses(s, h, ci) ==
    IF ci >= Len(s.clauses) THEN h
    ELSE LET c    == s.clauses[ci + 1]
             size == IF c.size < MAX_K THEN c.size ELSE MAX_K
         IN  UploadClauses(s, WriteClause(h, ci, size, 0, c.lits), ci + 1)

\* _hw_init, step 2: the non-empty watch lists, by literal code.
RECURSIVE UploadWatches(_, _, _)
UploadWatches(s, h, lit_code) ==
    IF lit_code >= 2 * NumVars + 2 THEN h
    ELSE IF s.watches[lit_code] = <<>> THEN UploadWatches(s, h, lit_code + 1)
    ELSE UploadWatches(s, WriteWatchList(h, lit_code, s.watches[lit_code]), lit_code + 1)

\* _hw_init, step 3: the assignment of every variable.
RECURSIVE UploadAssigns(_, _, _)
UploadAssigns(s, h, var) ==
    IF var > NumVars THEN h
    ELSE UploadAssigns(s, WriteAssign(h, var, sw_to_hw_assign(s.assigns[var])), var + 1)

\* HWBCPSimulator._hw_init
HwInitUpload(s, h) == UploadAssigns(s, UploadWatches(s, UploadClauses(s, h, 0), 0), 1)

\* The unit-clause pass of _run_solve: as in solve, and each enqueued
\* literal is written to the assignment memory. [s, h, unsat]
RECURSIVE HwPreflightLoop(_, _, _)
HwPreflightLoop(s, h, i) ==
    IF i >= Len(s.clauses) THEN [s |-> s, h |-> h, unsat |-> FALSE]
    ELSE LET c == s.clauses[i + 1] IN
         IF c.size = 0 THEN [s |-> s, h |-> h, unsat |-> TRUE]
         ELSE IF c.size = 1 /\ LitValue(s.assigns, c.lits[1]) = 0
         THEN [s |-> s, h |-> h, unsat |-> TRUE]
         ELSE IF c.size = 1 /\ LitValue(s.assigns, c.lits[1]) = UNASSIGNED
         THEN LET s1  == Enqueue(s, c.lits[1], i)
                  var == lit_var(c.lits[1])
              IN  HwPreflightLoop(s1, WriteAssign(h, var, sw_to_hw_assign(s1.assigns[var])),
                                  i + 1)
         ELSE HwPreflightLoop(s, h, i + 1)

\* The bridge's own enqueue of a popped implication e = (var, value, reason)
\* (_hw_propagate, lines 296-304 and 335-343).
ApplyImplication(s, e) ==
    LET code == IF e.value = 1 THEN 2 * e.var ELSE 2 * e.var + 1 IN
    [s EXCEPT !.assigns[e.var] = IF code % 2 = 1 THEN 0 ELSE 1,
              !.levels[e.var] = s.num_decisions,
              !.reasons[e.var] = e.reason,
              !.trail = Append(@, code),
              !.stats.implications = @ + 1]

\* _hw_propagate after a hardware conflict: pop while impl_valid, apply the
\* implications of still-unassigned variables. [s, h]
RECURSIVE DrainAfterConflict(_, _)
DrainAfterConflict(s, h) ==
    IF ~impl_valid(h) THEN [s |-> s, h |-> h]
    ELSE LET e  == FifoHead(h)
             h1 == PopImplication(h)
         IN  IF s.assigns[e.var] # UNASSIGNED THEN DrainAfterConflict(s, h1)
             ELSE LET s1 == ApplyImplication(s, e) IN
                  DrainAfterConflict(
                      s1, WriteAssign(h1, e.var, sw_to_hw_assign(s1.assigns[e.var])))

RECURSIVE DrainImplicationsLastConflict(_, _, _)
DrainImplicationsLastConflict(s, h, sw_conflict) ==
    IF ~impl_valid(h) THEN [s |-> s, h |-> h, sw_conflict |-> sw_conflict]
    ELSE LET e  == FifoHead(h)
             h1 == PopImplication(h)
         IN  IF s.assigns[e.var] # UNASSIGNED
             THEN DrainImplicationsLastConflict(
                      s, h1,
                      IF s.assigns[e.var] # (IF e.value = 1 THEN 1 ELSE 0)
                      THEN e.reason ELSE sw_conflict)
             ELSE LET s1 == ApplyImplication(s, e) IN
                  DrainImplicationsLastConflict(
                      s1, WriteAssign(h1, e.var, sw_to_hw_assign(s1.assigns[e.var])),
                      sw_conflict)

\* _hw_propagate after a round without hardware conflict: the same, and an
\* implication contradicting the assignment is a conflict on its reason
\* clause (the first one is kept). [s, h, sw_conflict]
RECURSIVE DrainImplications(_, _, _)
DrainImplications(s, h, sw_conflict) ==
    IF ~impl_valid(h) THEN [s |-> s, h |-> h, sw_conflict |-> sw_conflict]
    ELSE LET e  == FifoHead(h)
             h1 == PopImplication(h)
         IN  IF s.assigns[e.var] # UNASSIGNED
             THEN DrainImplications(
                      s, h1,
                      IF s.assigns[e.var] # (IF e.value = 1 THEN 1 ELSE 0)
                         /\ sw_conflict < 0
                      THEN e.reason ELSE sw_conflict)
             ELSE LET s1 == ApplyImplication(s, e) IN
                  DrainImplications(
                      s1, WriteAssign(h1, e.var, sw_to_hw_assign(s1.assigns[e.var])),
                      sw_conflict)

\* HWBCPSimulator._hw_propagate: one accelerator round per pending trail
\* literal. [s, h, conflict, timeout]
RECURSIVE HwPropagate(_, _)
HwPropagate(s, h) ==
    IF s.prop_head >= Len(s.trail)
    THEN [s |-> s, h |-> h, conflict |-> NoConflict, timeout |-> FALSE]
    ELSE LET false_lit == lit_neg(s.trail[s.prop_head + 1])
             s1 == [s EXCEPT !.prop_head = @ + 1, !.stats.propagations = @ + 1]
             w  == WaitDone(StartBcp(h, false_lit), 0)
         IN  IF ~w.done
             THEN [s |-> s1, h |-> w.h, conflict |-> NoConflict, timeout |-> TRUE]
             ELSE IF hw_conflict(w.h)
             THEN LET acked == Tick(w.h, [HostIdle EXCEPT !.conflict_ack = TRUE])
                      d     == DrainAfterConflict(s1, Tick(acked, HostIdle))
                  IN  [s |-> d.s, h |-> d.h, conflict |-> w.h.top.conflict_cid_reg,
                       timeout |-> FALSE]
             ELSE LET d == DrainImplications(s1, Tick(w.h, HostIdle), NoConflict)
                  IN  IF d.sw_conflict >= 0
                      THEN [s |-> d.s, h |-> d.h, conflict |-> d.sw_conflict,
                            timeout |-> FALSE]
                      ELSE HwPropagate(d.s, d.h)

\* The rounds of one call of _hw_propagate, in order. Each record holds the
\* software state and the accelerator at the start pulse (s0, h0), the
\* accelerator when the pop loop begins (hd), and the state, the accelerator
\* and the conflict when the round is over (s2, h2, conflict).
RECURSIVE HwRounds(_, _)
HwRounds(s, h) ==
    IF s.prop_head >= Len(s.trail) THEN <<>>
    ELSE LET false_lit == lit_neg(s.trail[s.prop_head + 1])
             s1 == [s EXCEPT !.prop_head = @ + 1, !.stats.propagations = @ + 1]
             w  == WaitDone(StartBcp(h, false_lit), 0)
         IN  IF ~w.done
             THEN <<[kind |-> "timeout", s0 |-> s1, h0 |-> h, hd |-> w.h,
                     s2 |-> s1, h2 |-> w.h, conflict |-> NoConflict]>>
             ELSE IF hw_conflict(w.h)
             THEN LET acked == Tick(w.h, [HostIdle EXCEPT !.conflict_ack = TRUE])
                      hd    == Tick(acked, HostIdle)
                      d     == DrainAfterConflict(s1, hd)
                  IN  <<[kind |-> "hw_conflict", s0 |-> s1, h0 |-> h, hd |-> hd,
                         s2 |-> d.s, h2 |-> d.h,
                         conflict |-> w.h.top.conflict_cid_reg]>>
             ELSE LET hd == Tick(w.h, HostIdle)
                      d  == DrainImplications(s1, hd, NoConflict)
                      r  == [kind |-> "ok", s0 |-> s1, h0 |-> h, hd |-> hd,
                             s2 |-> d.s, h2 |-> d.h, conflict |-> d.sw_conflict]
                  IN  IF d.sw_conflict >= 0 THEN <<r>>
                      ELSE <<r>> \o HwRounds(d.s, d.h)

\* The pop loops of _hw_propagate: the accelerator at each cycle in which
\* the loop drives assign_wr_en (the cycle after the pop of an implication
\* on a variable without a value), in order.
RECURSIVE DrainWriteStates(_, _)
DrainWriteStates(s, h) ==
    IF ~impl_valid(h) THEN <<>>
    ELSE LET e  == FifoHead(h)
             h1 == PopImplication(h)
         IN  IF s.assigns[e.var] # UNASSIGNED THEN DrainWriteStates(s, h1)
             ELSE LET s1 == ApplyImplication(s, e) IN
                  <<h1>> \o DrainWriteStates(
                               s1, WriteAssign(h1, e.var, sw_to_hw_assign(s1.assigns[e.var])))

HwSyncAssignsNothing(s, h, var) == h

\* HWBCPSimulator._hw_sync_assigns: UNASSIGNED is written for every
\* variable that is unassigned in software.
RECURSIVE HwSyncAssigns(_, _, _)
HwSyncAssigns(s, h, var) ==
    IF var > NumVars THEN h
    ELSE IF s.assigns[var] = UNASSIGNED
    THEN HwSyncAssigns(s, WriteAssign(h, var, HW_UNASSIGNED), var + 1)
    ELSE HwSyncAssigns(s, h, var + 1)

\* HWBCPSimulator._hw_upload_learnt: the clause word, then the two watch
\* lists it was appended to.
HwUploadLearnt(s, h, ci) ==
    LET c    == s.clauses[ci + 1]
        size == IF c.size < MAX_K THEN c.size ELSE MAX_K
        h1   == WriteClause(h, ci, size, 0, c.lits)
    IN  IF size >= 2
        THEN WriteWatchList(WriteWatchList(h1, c.lits[1], s.watches[c.lits[1]]),
                            c.lits[2], s.watches[c.lits[2]])
        ELSE h1


\* ── The accelerator under a test bench ───────────────────────────────────
\* test/hardware/modules/test_bcp_accelerator.py drives BCPAccelerator alone:
\* it fills the memories, pulses start, polls done, acknowledges a conflict
\* and pops the FIFO. The bench below does the same over a family of memory
\* contents and for two rounds in a row.
MaxListLen == 3
MaxSecondLen == 2
MaxRounds == 2
MaxGap == 2
MaxCycles == 120

\* The assignment memory of the bench: x1 FALSE, x2 TRUE, x3 and x4 UNASSIGNED.
BenchAssign == <<HW_FALSE, HW_TRUE, HW_UNASSIGNED, HW_UNASSIGNED>>

\* The clause memory of the bench, by clause ID 0..7:
\* UNIT (x3), UNIT (not x4, unassigned literal first), CONFLICT, SATISFIED by
\* a literal, UNRESOLVED, SATISFIED by the sat hint, UNIT of size 5 (not x3),
\* CONFLICT of size 3.
BenchClauses ==
    << [sat_bit |-> 0, lits |-> <<2, 6>>],
       [sat_bit |-> 0, lits |-> <<9, 2>>],
       [sat_bit |-> 0, lits |-> <<2, 5>>],
       [sat_bit |-> 0, lits |-> <<2, 4>>],
       [sat_bit |-> 0, lits |-> <<2, 6, 8>>],
       [sat_bit |-> 1, lits |-> <<2, 4>>],
       [sat_bit |-> 0, lits |-> <<2, 5, 2, 5, 7>>],
       [sat_bit |-> 0, lits |-> <<5, 2, 5>> ] >>

\* The two literals the bench starts rounds on: x1 and not x2, both FALSE.
BenchLitA == 2
BenchLitB == 5

\* Watch lists for BenchLitA: every list of up to MaxListLen clause IDs,
\* lists of FIFO_DEPTH and FIFO_DEPTH + 1 UNIT clauses, and a conflicting
\* clause followed by MaxTail UNIT or SATISFIED clauses.
MaxTail == 5

BenchListsA ==
    SeqsUpTo(0..(Len(BenchClauses) - 1), MaxListLen)
        \cup {[i \in 1..n |-> 0] : n \in {FIFO_DEPTH, FIFO_DEPTH + 1}}
        \cup {[i \in 1..(MaxTail + 1) |-> IF i = 1 THEN 2 ELSE k] : k \in {0, 3}}

\* Watch lists for BenchLitB: up to MaxSecondLen of UNIT, CONFLICT, SATISFIED.
BenchListsB == SeqsUpTo({1, 2, 3}, MaxSecondLen)

TbOff == [phase |-> "off", F |-> 0, cycles |-> 0, rounds |-> 0, gap |-> 0,
          fifo0 |-> 0, wr0 |-> 0]

\* The bench's setup: clause words, watch lists, assignments, one write per
\* clock edge.
RECURSIVE BenchWriteClauses(_, _)
BenchWriteClauses(h, cid) ==
    IF cid >= Len(BenchClauses) THEN h
    ELSE LET c == BenchClauses[cid + 1] IN
         BenchWriteClauses(WriteClause(h, cid, Len(c.lits), c.sat_bit, c.lits), cid + 1)

RECURSIVE BenchWriteAssigns(_, _)
BenchWriteAssigns(h, var) ==
    IF var > Len(BenchAssign) THEN h
    ELSE BenchWriteAssigns(WriteAssign(h, var, BenchAssign[var]), var + 1)

BenchSetup(h, listA, listB) ==
    BenchWriteAssigns(
        WriteWatchList(WriteWatchList(BenchWriteClauses(h, 0), BenchLitA, listA),
                       BenchLitB, listB),
        1)

\* ── The host of BCPTop ───────────────────────────────────────────────────
\* test/hardware/test_integration.py and test_host_interface.py send
\* commands byte by byte and read the response packets. The host below
\* loads the memories with a fixed list of commands and then issues up to
\* MaxCmds further commands, waiting for the terminator after BCP_START. The
\* UART transmitter is busy for at most MaxBusy edges in a row, and the host
\* gives up a response after MaxTx bytes without a terminator.
MaxCmds == 3
MaxIdle == 2
MaxBusy == 1
MaxTx == 18

\* A command and its fields; a field a command does not have is 0.
NoCmd ==
    [op |-> 0, cid |-> 0, size |-> 0, sat |-> 0, lits |-> <<>>, lit |-> 0,
     idx |-> 0, len |-> 0, var |-> 0, val |-> 0]

CmdWriteClause(cid, size, sat, lits) ==
    [NoCmd EXCEPT !.op = CMD_WRITE_CLAUSE, !.cid = cid, !.size = size, !.sat = sat,
                  !.lits = lits]

CmdWriteWlEntry(lit, idx, cid) ==
    [NoCmd EXCEPT !.op = CMD_WRITE_WL_ENTRY, !.lit = lit, !.idx = idx, !.cid = cid]

CmdWriteWlLen(lit, len) ==
    [NoCmd EXCEPT !.op = CMD_WRITE_WL_LEN, !.lit = lit, !.len = len]

CmdWriteAssign(var, val) ==
    [NoCmd EXCEPT !.op = CMD_WRITE_ASSIGN, !.var = var, !.val = val]

CmdBcpStart(false_lit) == [NoCmd EXCEPT !.op = CMD_BCP_START, !.lit = false_lit]

CmdResetState == [NoCmd EXCEPT !.op = CMD_RESET_STATE]

\* (x >> 8) & 0xFF, x & 0xFF
Hi8(x) == (x \div 256) % 256

Lo8(x) == x % 256

\* encode_write_clause .. encode_bcp_start of test_integration.py, with the
\* command byte in front (send_command).
EncodeCmd(c) ==
    <<c.op>> \o
    (IF c.op = CMD_WRITE_CLAUSE
     THEN <<Hi8(c.cid), Lo8(c.cid), c.size, c.sat>>
          \o [i \in 1..(2 * MAX_K) |->
                 LET k   == (i + 1) \div 2
                     lit == IF k <= Len(c.lits) THEN c.lits[k] ELSE 0
                 IN  IF i % 2 = 1 THEN Hi8(lit) ELSE Lo8(lit)]
     ELSE IF c.op = CMD_WRITE_WL_ENTRY
     THEN <<Hi8(c.lit), Lo8(c.lit), c.idx, Hi8(c.cid), Lo8(c.cid)>>
     ELSE IF c.op = CMD_WRITE_WL_LEN THEN <<Hi8(c.lit), Lo8(c.lit), c.len>>
     ELSE IF c.op = CMD_WRITE_ASSIGN THEN <<Hi8(c.var), Lo8(c.var), c.val>>
     ELSE IF c.op = CMD_BCP_START THEN <<Hi8(c.lit), Lo8(c.lit)>>
     ELSE <<>>)

\* The two literals rounds are started on: x1 (FALSE) and not x2 (FALSE).
TopLitA == 2
TopLitB == 5

\* Clause IDs of the fixture: x1 or x257 (UNIT), x1 or not x3 (UNIT),
\* x1 or not x2 (all FALSE), and a clause with every field at its limit.
TopUnitWide == 258
TopUnit == 3
TopConflict == 257
TopLimit == 8191
\* A second all-FALSE clause: x1 or not x2 or x1.
TopConflictB == 259

\* The watch lists tried for TopLitA.
TopLists ==
    {<<>>, <<TopUnitWide, TopUnit>>, <<TopConflict>>,
     <<TopUnit, TopConflict, TopUnitWide>>,
     <<TopConflict, TopUnit, TopUnit, TopUnit, TopUnit, TopUnit>>,
     <<TopConflict, TopConflictB>>}

\* The commands that load the memories, for watch list wl of TopLitA. The
\* watch list of TopLitB is never written: its length is 0.
TopSetup(wl) ==
    << CmdWriteClause(TopUnitWide, 2, 0, <<2, 514>>),
       CmdWriteClause(TopUnit, 2, 0, <<2, 7>>),
       CmdWriteClause(TopConflict, 2, 0, <<2, 5>>),
       CmdWriteClause(TopConflictB, 3, 0, <<2, 5, 2>>),
       CmdWriteClause(TopLimit, 5, 1, <<65535, 256, 255, 1, 513>>),
       CmdWriteAssign(1, HW_FALSE),
       CmdWriteAssign(2, HW_TRUE),
       CmdWriteAssign(511, HW_TRUE),
       CmdWriteWlLen(1023, 100),
       CmdWriteWlEntry(1023, 99, TopLimit),
       CmdWriteWlLen(TopLitA, Len(wl)) >>
    \o [i \in 1..Len(wl) |-> CmdWriteWlEntry(TopLitA, i - 1, wl[i])]

\* The commands the host chooses from once the memories are loaded.
TopCmds ==
    {CmdBcpStart(TopLitA), CmdBcpStart(TopLitB), CmdResetState,
     CmdWriteAssign(2, HW_UNASSIGNED)}

\* The host: the commands still to send (prog), the bytes of the current
\* command still to send (rx), the current command (cmd), the strobe just
\* given (strobe), the enables seen since the command was issued (pulses,
\* pulse), the bytes received since the last BCP_START (tx), whether the
\* terminator of that round is awaited (wait), whether HostInterface has
\* seen done in that round (resp), the commands chosen after the setup
\* (sent), the idle edges since the last activity (idle), the edges the
\* transmitter has been busy in a row (busy), and the FIFO
\* contents and conflict outputs of the accelerator when done was seen
\* (fifo0, conf0, cid0).
UartOff ==
    [phase |-> "off", prog |-> <<>>, rx |-> <<>>, cmd |-> NoCmd, strobe |-> FALSE,
     pulses |-> 0, pulse |-> HostIdle, tx |-> <<>>, wait |-> FALSE, resp |-> FALSE,
     sent |-> 0, idle |-> 0, busy |-> 0, fifo0 |-> <<>>, conf0 |-> FALSE, cid0 |-> 0]

\* recv_response of test_integration.py, repeated up to the terminator: the
\* bytes received so far end a complete response.
RECURSIVE ResponseDone(_)
ResponseDone(tx) ==
    IF tx = <<>> THEN FALSE
    ELSE IF tx[1] = RSP_IMPLICATION
    THEN Len(tx) >= 6 /\ ResponseDone(SubSeq(tx, 7, Len(tx)))
    ELSE tx[1] \in {RSP_DONE_OK, RSP_DONE_CONF} /\ Len(tx) >= 4

\* ── solve(): the CDCL loop as a state machine ────────────────────────────
vars == <<formula, clauses, watches, assigns, levels, reasons, activity, var_inc,
          trail, prop_head, trail_delimiters, num_decisions, stats,
          pc, conflict, learnt_lits, bt_level, result, hw, sw_run, tb, host_if, uart,
          host_if, uart>>

\* A solver constructed on any formula of the bounded input space.
Init ==
    /\ formula \in Formulas
    /\ clauses = NewSolver(formula).clauses
    /\ watches = NewSolver(formula).watches
    /\ assigns = [v \in Vars |-> UNASSIGNED]
    /\ levels = [v \in Vars |-> 0]
    /\ reasons = [v \in Vars |-> NoReason]
    /\ activity = [v \in Vars |-> 0]
    /\ var_inc = ActScale
    /\ trail = <<>>
    /\ prop_head = 0
    /\ trail_delimiters = <<>>
    /\ num_decisions = 0
    /\ stats = SolverStats0
    /\ pc = "preflight"
    /\ conflict = NoConflict
    /\ learnt_lits = <<>>
    /\ bt_level = 0
    /\ result = "none"
    /\ hw = HwReset
    /\ sw_run = [result |-> "none", stats |-> SolverStats0]
    /\ tb = TbOff
    /\ host_if = HostIfReset
    /\ uart = UartOff

\* solve, lines 315-322: the scan of the clauses for empty and unit clauses.
Preflight ==
    /\ pc = "preflight"
    /\ LET r == PreflightLoop(Cur, 0) IN
         /\ SetSolver(r.s)
         /\ pc' = IF r.unsat THEN "done" ELSE "propagate"
         /\ result' = IF r.unsat THEN "UNSAT" ELSE "none"
    /\ UNCHANGED <<formula, hw, sw_run, tb, host_if, uart, conflict, learnt_lits, bt_level>>

\* solve, line 325: conflict = self._propagate_sw()
Propagate ==
    /\ pc = "propagate"
    /\ LET r == PropagateSW(Cur) IN
         /\ SetSolver(r.s)
         /\ conflict' = r.conflict
         /\ pc' = IF r.conflict >= 0 THEN "conflict" ELSE "noconflict"
    /\ UNCHANGED <<formula, hw, sw_run, tb, host_if, uart, learnt_lits, bt_level, result>>

\* solve, lines 327-331: a conflict at decision level 0 is UNSAT.
ConflictAtRoot ==
    /\ pc = "conflict"
    /\ num_decisions = 0
    /\ SetSolver([Cur EXCEPT !.stats.conflicts = @ + 1])
    /\ pc' = "done"
    /\ result' = "UNSAT"
    /\ UNCHANGED <<formula, hw, sw_run, tb, host_if, uart, conflict, learnt_lits, bt_level>>

\* solve, lines 327-333: count the conflict and analyze it.
AnalyzeConflict ==
    /\ pc = "conflict"
    /\ num_decisions > 0
    /\ stats.conflicts < MaxConflicts
    /\ LET a == Analyze(Cur, conflict) IN
         /\ SetSolver([Cur EXCEPT !.stats.conflicts = @ + 1,
                                  !.activity = a.activity,
                                  !.var_inc = a.var_inc])
         /\ learnt_lits' = a.learnt
         /\ bt_level' = a.bt_level
         /\ pc' = IF a.ok THEN "analyzed" ELSE "done"
         /\ result' = IF a.ok THEN "none" ELSE "AssertionError"
    /\ UNCHANGED <<formula, hw, sw_run, tb, host_if, uart, conflict>>

\* solve, line 334: self._backtrack(bt_level)
BacktrackStep ==
    /\ pc = "analyzed"
    /\ SetSolver(Backtrack(Cur, bt_level))
    /\ pc' = "backtracked"
    /\ UNCHANGED <<formula, hw, sw_run, tb, host_if, uart, conflict, learnt_lits, bt_level, result>>

\* Faulty variant: the learnt clause is inserted but its first literal is
\* not enqueued.
LearnNoEnqueue ==
    /\ pc = "backtracked"
    /\ IF Len(learnt_lits) = 1
       THEN SetSolver(Cur)
       ELSE SetSolver(AddLearntClause(Cur, learnt_lits, TRUE))
    /\ pc' = "propagate"
    /\ UNCHANGED <<formula, hw, sw_run, tb, host_if, uart, conflict, learnt_lits, bt_level, result>>

\* solve, lines 336-340: insert the learnt clause and enqueue its first literal.
Learn ==
    /\ pc = "backtracked"
    /\ IF Len(learnt_lits) = 1
       THEN SetSolver(Enqueue(Cur, learnt_lits[1], NoReason))
       ELSE SetSolver(Enqueue(AddLearntClause(Cur, learnt_lits, TRUE),
                              learnt_lits[1], Len(clauses)))
    /\ pc' = "propagate"
    /\ UNCHANGED <<formula, hw, sw_run, tb, host_if, uart, conflict, learnt_lits, bt_level, result>>

\* solve, lines 343-345: no unassigned variable is left.
ReturnSat ==
    /\ pc = "noconflict"
    /\ PickDecisionVar(Cur) = 0
    /\ pc' = "done"
    /\ result' = "SAT"
    /\ UNCHANGED <<formula, hw, sw_run, tb, host_if, uart, solverVars, conflict, learnt_lits, bt_level>>

\* Faulty variant: the decision is made but stats.decisions is not counted.
DecideUncounted ==
    /\ pc = "noconflict"
    /\ LET dec_var == PickDecisionVar(Cur) IN
         /\ dec_var # 0
         /\ SetSolver(Enqueue([Cur EXCEPT !.trail_delimiters = Append(@, Len(trail)),
                                          !.num_decisions = @ + 1],
                              lit_to_code(0 - dec_var), NoReason))
    /\ pc' = "propagate"
    /\ UNCHANGED <<formula, hw, sw_run, tb, host_if, uart, conflict, learnt_lits, bt_level, result>>

\* solve, lines 343-353: open a decision level and decide dec_var FALSE.
Decide ==
    /\ pc = "noconflict"
    /\ LET dec_var == PickDecisionVar(Cur) IN
         /\ dec_var # 0
         /\ SetSolver(Enqueue([Cur EXCEPT !.stats.decisions = @ + 1,
                                          !.trail_delimiters = Append(@, Len(trail)),
                                          !.num_decisions = @ + 1],
                              lit_to_code(0 - dec_var), NoReason))
    /\ pc' = "propagate"
    /\ UNCHANGED <<formula, hw, sw_run, tb, host_if, uart, conflict, learnt_lits, bt_level, result>>

Next ==
    \/ Preflight
    \/ Propagate
    \/ ConflictAtRoot
    \/ AnalyzeConflict
    \/ BacktrackStep
    \/ Learn
    \/ ReturnSat
    \/ Decide

Spec == Init /\ [][Next]_vars


\* solve() is single-threaded and has no suspension point: while it has not
\* returned, it takes its next step. Every action of Next moves pc, and Next
\* is enabled exactly in the states Running describes, so weak fairness of
\* Step is weak fairness of Next.
PCs == {"preflight", "propagate", "conflict", "noconflict", "analyzed", "backtracked", "done"}

Running ==
    /\ pc # "done"
    /\ ~(pc = "conflict" /\ num_decisions > 0 /\ stats.conflicts >= MaxConflicts)

Step == Running /\ pc' \in PCs /\ pc' # pc

LiveSpec == Init /\ [][Next]_vars /\ WF_pc(Step)

\* ── The HW-bridge run (HWBCPSimulator._run_solve) ────────────────────────
\* benchmark_runner.run_benchmark in mode "both": once run_sw_only(formula)
\* has returned, run_hw_sim(formula) builds a HWBCPSimulator, that is a fresh
\* CDCLSolver on the same formula and a fresh accelerator.
StartHwRun ==
    /\ pc = "done"
    /\ result \in {"SAT", "UNSAT"}
    /\ sw_run' = [result |-> result, stats |-> stats]
    /\ SetSolver(NewSolver(formula))
    /\ hw' = HwReset
    /\ pc' = "hw_init"
    /\ conflict' = NoConflict
    /\ learnt_lits' = <<>>
    /\ bt_level' = 0
    /\ result' = "none"
    /\ UNCHANGED <<formula, tb, host_if, uart>>

\* _run_solve, line 196: await self._hw_init(ctx, dut)
HwInit ==
    /\ pc = "hw_init"
    /\ hw' = HwInitUpload(Cur, hw)
    /\ pc' = "hw_preflight"
    /\ UNCHANGED <<formula, sw_run, tb, host_if, uart, solverVars, conflict, learnt_lits, bt_level, result>>

\* _run_solve, lines 198-210: the unit-clause pass.
HwPreflight ==
    /\ pc = "hw_preflight"
    /\ LET r == HwPreflightLoop(Cur, hw, 0) IN
         /\ SetSolver(r.s)
         /\ hw' = r.h
         /\ pc' = IF r.unsat THEN "hw_done" ELSE "hw_propagate"
         /\ result' = IF r.unsat THEN "UNSAT" ELSE "none"
    /\ UNCHANGED <<formula, sw_run, tb, host_if, uart, conflict, learnt_lits, bt_level>>

\* _run_solve, line 213: conflict = await self._hw_propagate(ctx, dut)
HwBcp ==
    /\ pc = "hw_propagate"
    /\ LET r == HwPropagate(Cur, hw) IN
         /\ SetSolver(r.s)
         /\ hw' = r.h
         /\ conflict' = r.conflict
         /\ pc' = IF r.timeout THEN "hw_done"
                  ELSE IF r.conflict >= 0 THEN "hw_conflict" ELSE "hw_noconflict"
         /\ result' = IF r.timeout THEN "RuntimeError" ELSE "none"
    /\ UNCHANGED <<formula, sw_run, tb, host_if, uart, learnt_lits, bt_level>>

\* _run_solve, lines 215-218: a conflict at decision level 0 is UNSAT.
HwConflictAtRoot ==
    /\ pc = "hw_conflict"
    /\ num_decisions = 0
    /\ SetSolver([Cur EXCEPT !.stats.conflicts = @ + 1])
    /\ pc' = "hw_done"
    /\ result' = "UNSAT"
    /\ UNCHANGED <<formula, hw, sw_run, tb, host_if, uart, conflict, learnt_lits, bt_level>>

\* _run_solve, lines 215-220: count the conflict and analyze it.
HwAnalyzeConflict ==
    /\ pc = "hw_conflict"
    /\ num_decisions > 0
    /\ stats.conflicts < MaxConflicts
    /\ LET a == Analyze(Cur, conflict) IN
         /\ SetSolver([Cur EXCEPT !.stats.conflicts = @ + 1,
                                  !.activity = a.activity,
                                  !.var_inc = a.var_inc])
         /\ learnt_lits' = a.learnt
         /\ bt_level' = a.bt_level
         /\ pc' = IF a.ok THEN "hw_analyzed" ELSE "hw_done"
         /\ result' = IF a.ok THEN "none" ELSE "AssertionError"
    /\ UNCHANGED <<formula, hw, sw_run, tb, host_if, uart, conflict>>

\* _run_solve, lines 221-224: backtrack, then write UNASSIGNED to the
\* accelerator for every unassigned variable.
HwBacktrack ==
    /\ pc = "hw_analyzed"
    /\ LET s1 == Backtrack(Cur, bt_level) IN
         /\ SetSolver(s1)
         /\ hw' = HwSyncAssigns(s1, hw, 1)
    /\ pc' = "hw_backtracked"
    /\ UNCHANGED <<formula, sw_run, tb, host_if, uart, conflict, learnt_lits, bt_level, result>>

\* _run_solve, lines 226-238: insert the learnt clause, enqueue its first
\* literal, upload the clause and write the new assignment.
HwLearn ==
    /\ pc = "hw_backtracked"
    /\ LET var == lit_var(learnt_lits[1]) IN
       IF Len(learnt_lits) = 1
       THEN LET s1 == Enqueue(Cur, learnt_lits[1], NoReason) IN
            /\ SetSolver(s1)
            /\ hw' = WriteAssign(hw, var, sw_to_hw_assign(s1.assigns[var]))
       ELSE LET ci == Len(clauses)
                s1 == Enqueue(AddLearntClause(Cur, learnt_lits, TRUE), learnt_lits[1], ci)
            IN  /\ SetSolver(s1)
                /\ hw' = WriteAssign(HwUploadLearnt(s1, hw, ci), var,
                                     sw_to_hw_assign(s1.assigns[var]))
    /\ pc' = "hw_propagate"
    /\ UNCHANGED <<formula, sw_run, tb, host_if, uart, conflict, learnt_lits, bt_level, result>>

\* _run_solve, lines 240-243: no unassigned variable is left.
HwReturnSat ==
    /\ pc = "hw_noconflict"
    /\ PickDecisionVar(Cur) = 0
    /\ pc' = "hw_done"
    /\ result' = "SAT"
    /\ UNCHANGED <<formula, hw, sw_run, tb, host_if, uart, solverVars, conflict, learnt_lits, bt_level>>

\* _run_solve, lines 240-254: decide dec_var FALSE and write it to the
\* assignment memory.
HwDecide ==
    /\ pc = "hw_noconflict"
    /\ LET dec_var == PickDecisionVar(Cur) IN
         /\ dec_var # 0
         /\ LET s1 == Enqueue([Cur EXCEPT !.stats.decisions = @ + 1,
                                          !.trail_delimiters = Append(@, Len(trail)),
                                          !.num_decisions = @ + 1],
                              lit_to_code(0 - dec_var), NoReason)
            IN  /\ SetSolver(s1)
                /\ hw' = WriteAssign(hw, dec_var, sw_to_hw_assign(s1.assigns[dec_var]))
    /\ pc' = "hw_propagate"
    /\ UNCHANGED <<formula, sw_run, tb, host_if, uart, conflict, learnt_lits, bt_level, result>>

HwNext ==
    \/ StartHwRun
    \/ HwInit
    \/ HwPreflight
    \/ HwBcp
    \/ HwConflictAtRoot
    \/ HwAnalyzeConflict
    \/ HwBacktrack
    \/ HwLearn
    \/ HwReturnSat
    \/ HwDecide

NextBoth == Next \/ HwNext

\* The input space of the two runs: the formulas whose clauses of more than
\* two literals are on distinct variables (repeated and complementary
\* literals stay in the clauses of one and two literals), and the binary
\* formulas.
BothFormulas ==
    SeqsUpTo({c \in InputClauses : Len(c) <= 2 \/ DistinctVars(c)}, MaxClauses)
        \cup SeqsUpTo(BinaryClauses, MaxBinClauses)

BothInit ==
    /\ formula \in BothFormulas
    /\ Init

\* The software run followed by the HW-bridge run on the same formula.
SpecBoth == BothInit /\ [][NextBoth]_vars

\* Clauses longer than MaxLen, up to the MAX_K literals a clause word of the
\* accelerator holds: the literal at position i is on variable i, or on the
\* last variable beyond position NumVars, with either sign.
WideClauses ==
    UNION {{[i \in 1..n |-> LET v == IF i < NumVars THEN i ELSE NumVars
                            IN  IF i \in P THEN v ELSE 0 - v] : P \in SUBSET (1..n)}
           : n \in (MaxLen + 1)..MAX_K}

\* The input space with the formulas of one such clause added.
WideFormulas == BothFormulas \cup {<<c>> : c \in WideClauses}

\* The two runs on the wider input space.
WideInit ==
    /\ formula \in WideFormulas
    /\ clauses = NewSolver(formula).clauses
    /\ watches = NewSolver(formula).watches
    /\ assigns = [v \in Vars |-> UNASSIGNED]
    /\ levels = [v \in Vars |-> 0]
    /\ reasons = [v \in Vars |-> NoReason]
    /\ activity = [v \in Vars |-> 0]
    /\ var_inc = ActScale
    /\ trail = <<>>
    /\ prop_head = 0
    /\ trail_delimiters = <<>>
    /\ num_decisions = 0
    /\ stats = SolverStats0
    /\ pc = "preflight"
    /\ conflict = NoConflict
    /\ learnt_lits = <<>>
    /\ bt_level = 0
    /\ result = "none"
    /\ hw = HwReset
    /\ sw_run = [result |-> "none", stats |-> SolverStats0]
    /\ tb = TbOff
    /\ host_if = HostIfReset
    /\ uart = UartOff

SpecWide == WideInit /\ [][NextBoth]_vars

\* ── The accelerator test bench as a state machine ────────────────────────
\* One action per clock edge of the bench (testbench() of
\* test_bcp_accelerator.py): hw is the accelerator, tb the host's position.
BenchInit ==
    /\ formula = <<>>
    /\ clauses = <<>>
    /\ watches = NewSolver(<<>>).watches
    /\ assigns = [v \in Vars |-> UNASSIGNED]
    /\ levels = [v \in Vars |-> 0]
    /\ reasons = [v \in Vars |-> NoReason]
    /\ activity = [v \in Vars |-> 0]
    /\ var_inc = ActScale
    /\ trail = <<>>
    /\ prop_head = 0
    /\ trail_delimiters = <<>>
    /\ num_decisions = 0
    /\ stats = SolverStats0
    /\ pc = "bench"
    /\ conflict = NoConflict
    /\ learnt_lits = <<>>
    /\ bt_level = 0
    /\ result = "none"
    /\ hw = HwReset
    /\ sw_run = [result |-> "none", stats |-> SolverStats0]
    /\ tb = [TbOff EXCEPT !.phase = "load"]
    /\ host_if = HostIfReset
    /\ uart = UartOff

BenchFrame ==
    UNCHANGED <<formula, sw_run, host_if, uart, solverVars, pc, conflict, learnt_lits,
                bt_level, result>>

\* write_clause, write_watch_list, write_assign: the memories are filled.
BenchLoad ==
    /\ tb.phase = "load"
    /\ \E listA \in BenchListsA : \E listB \in BenchListsB :
          hw' = BenchSetup(hw, listA, listB)
    /\ tb' = [tb EXCEPT !.phase = "idle"]
    /\ BenchFrame

\* The host has left its pop loop: the FIFO was seen empty.
BenchHostFree == tb.phase = "idle" \/ (tb.phase = "drain" /\ ~impl_valid(hw))

\* start_bcp: the first round is on BenchLitA, a later one on either literal.
BenchStartBcp ==
    /\ BenchHostFree
    /\ tb.rounds < MaxRounds
    /\ \E F \in (IF tb.rounds = 0 THEN {BenchLitA} ELSE {BenchLitA, BenchLitB}) :
          /\ hw' = StartBcp(hw, F)
          /\ tb' = [phase |-> "run", F |-> F, cycles |-> 1, rounds |-> tb.rounds + 1,
                    gap |-> 0, fifo0 |-> hw.fifo.count, wr0 |-> hw.fifo.wr_ptr]
    /\ BenchFrame

\* wait_done: done is not asserted, one more clock edge.
BenchWaitDone ==
    /\ tb.phase = "run"
    /\ ~hw_done(hw)
    /\ tb.cycles < MaxCycles
    /\ hw' = Tick(hw, HostIdle)
    /\ tb' = [tb EXCEPT !.cycles = @ + 1]
    /\ BenchFrame

\* ack_conflict: done with conflict, conflict_ack for one cycle.
BenchAckConflict ==
    /\ tb.phase = "run"
    /\ hw_done(hw)
    /\ hw_conflict(hw)
    /\ hw' = Tick(hw, [HostIdle EXCEPT !.conflict_ack = TRUE])
    /\ tb' = [tb EXCEPT !.phase = "acked"]
    /\ BenchFrame

\* The clock edge after the acknowledge (conflict_ack is low again).
BenchAfterAck ==
    /\ tb.phase = "acked"
    /\ hw' = Tick(hw, HostIdle)
    /\ tb' = [tb EXCEPT !.phase = "drain"]
    /\ BenchFrame

\* done without conflict: one clock edge, DONE -> IDLE.
BenchDoneTick ==
    /\ tb.phase = "run"
    /\ hw_done(hw)
    /\ ~hw_conflict(hw)
    /\ hw' = Tick(hw, HostIdle)
    /\ tb' = [tb EXCEPT !.phase = "drain"]
    /\ BenchFrame

\* pop_implication, while impl_valid.
BenchPopImplication ==
    /\ tb.phase = "drain"
    /\ impl_valid(hw)
    /\ hw' = PopImplication(hw)
    /\ UNCHANGED tb
    /\ BenchFrame

\* Clock edges between two rounds (the host is busy elsewhere).
BenchIdleTick ==
    /\ BenchHostFree
    /\ tb.gap < MaxGap
    /\ hw' = Tick(hw, HostIdle)
    /\ tb' = [tb EXCEPT !.phase = "idle", !.gap = @ + 1]
    /\ BenchFrame

BenchNext ==
    \/ BenchLoad
    \/ BenchStartBcp
    \/ BenchWaitDone
    \/ BenchAckConflict
    \/ BenchAfterAck
    \/ BenchDoneTick
    \/ BenchPopImplication
    \/ BenchIdleTick

SpecBench == BenchInit /\ [][BenchNext]_vars

\* ── BCPTop under its host as a state machine ─────────────────────────────
TopInit ==
    /\ formula = <<>>
    /\ clauses = <<>>
    /\ watches = NewSolver(<<>>).watches
    /\ assigns = [v \in Vars |-> UNASSIGNED]
    /\ levels = [v \in Vars |-> 0]
    /\ reasons = [v \in Vars |-> NoReason]
    /\ activity = [v \in Vars |-> 0]
    /\ var_inc = ActScale
    /\ trail = <<>>
    /\ prop_head = 0
    /\ trail_delimiters = <<>>
    /\ num_decisions = 0
    /\ stats = SolverStats0
    /\ pc = "top"
    /\ conflict = NoConflict
    /\ learnt_lits = <<>>
    /\ bt_level = 0
    /\ result = "none"
    /\ hw = HwReset
    /\ sw_run = [result |-> "none", stats |-> SolverStats0]
    /\ tb = TbOff
    /\ host_if = HostIfReset
    /\ \E wl \in TopLists :
           uart = [UartOff EXCEPT !.phase = "setup", !.prog = TopSetup(wl)]

TopFrame ==
    UNCHANGED <<formula, sw_run, tb, solverVars, pc, conflict, learnt_lits, bt_level,
                result>>

\* An enable or start pulse is driven towards the accelerator.
AnyEnable(p) ==
    p.clause_wr_en \/ p.wl_wr_en \/ p.wl_wr_len_en \/ p.assign_wr_en \/ p.start

\* What the host and the observer of the ports record at one clock edge.
UartEdge(u, tx_ready) ==
    LET p    == HostIfToBcp(host_if, tx_ready)
        seen == host_if.fsm = "BCP_WAIT" /\ hw_done(hw)
    IN  [u EXCEPT !.pulses = IF AnyEnable(p) THEN @ + 1 ELSE @,
                  !.pulse  = IF AnyEnable(p) THEN p ELSE @,
                  !.tx     = IF tx_valid(host_if) /\ tx_ready
                             THEN Append(@, tx_data(host_if)) ELSE @,
                  !.busy   = IF tx_valid(host_if) /\ ~tx_ready THEN @ + 1 ELSE 0,
                  !.resp   = @ \/ seen,
                  !.fifo0  = IF seen THEN FifoContents(hw) ELSE @,
                  !.conf0  = IF seen THEN hw_conflict(hw) ELSE @,
                  !.cid0   = IF seen THEN hw.top.conflict_cid_reg ELSE @]

\* tx_ready of the UART transmitter: it may be busy when a byte is offered.
TxReadyChoices ==
    IF tx_valid(host_if) /\ uart.busy < MaxBusy THEN BOOLEAN ELSE {TRUE}

\* The host is between two commands.
TopHostFree ==
    /\ pc = "top"
    /\ uart.rx = <<>>
    /\ ~uart.strobe
    /\ ~uart.wait \/ ResponseDone(uart.tx)
    /\ Len(uart.tx) < MaxTx

\* send_command: the host takes the next command of the setup, or chooses
\* one of TopCmds, and encodes it.
TopIssue ==
    /\ TopHostFree
    /\ \E c \in (IF uart.prog # <<>> THEN {Head(uart.prog)} ELSE TopCmds) :
           /\ uart.prog = <<>> => uart.sent < MaxCmds
           /\ uart' = [uart EXCEPT
                          !.phase = IF Len(uart.prog) > 1 THEN "setup" ELSE "rounds",
                          !.prog = IF uart.prog # <<>> THEN Tail(@) ELSE @,
                          !.sent = IF uart.prog = <<>> THEN @ + 1 ELSE @,
                          !.cmd = c,
                          !.rx = EncodeCmd(c),
                          !.pulses = 0,
                          !.pulse = HostIdle,
                          !.idle = 0,
                          !.wait = c.op = CMD_BCP_START,
                          !.resp = IF c.op = CMD_BCP_START THEN FALSE ELSE @,
                          !.tx = IF c.op = CMD_BCP_START THEN <<>> ELSE @]
    /\ UNCHANGED <<hw, host_if>>
    /\ TopFrame

\* send_byte, first edge: rx_valid with the next byte.
TopStrobe ==
    /\ pc = "top"
    /\ uart.rx # <<>>
    /\ ~uart.strobe
    /\ \E tx_ready \in TxReadyChoices :
           LET r == TopTick(hw, host_if, TRUE, Head(uart.rx), tx_ready) IN
           /\ hw' = r.h
           /\ host_if' = r.hi
           /\ uart' = [UartEdge(uart, tx_ready) EXCEPT !.rx = Tail(@), !.strobe = TRUE]
    /\ TopFrame

\* send_byte, second edge: rx_valid is low again.
TopGap ==
    /\ pc = "top"
    /\ uart.strobe
    /\ \E tx_ready \in TxReadyChoices :
           LET r == TopTick(hw, host_if, FALSE, 0, tx_ready) IN
           /\ hw' = r.h
           /\ host_if' = r.hi
           /\ uart' = [UartEdge(uart, tx_ready) EXCEPT !.strobe = FALSE]
    /\ TopFrame

\* recv_response: the host waits for the bytes of the response.
TopWait ==
    /\ pc = "top"
    /\ uart.rx = <<>>
    /\ ~uart.strobe
    /\ uart.wait
    /\ ~ResponseDone(uart.tx)
    /\ Len(uart.tx) < MaxTx
    /\ \E tx_ready \in TxReadyChoices :
           LET r == TopTick(hw, host_if, FALSE, 0, tx_ready) IN
           /\ hw' = r.h
           /\ host_if' = r.hi
           /\ uart' = UartEdge(uart, tx_ready)
    /\ TopFrame

\* Clock edges while the host is between two commands.
TopIdle ==
    /\ TopHostFree
    /\ uart.idle < MaxIdle
    /\ \E tx_ready \in TxReadyChoices :
           LET r == TopTick(hw, host_if, FALSE, 0, tx_ready) IN
           /\ hw' = r.h
           /\ host_if' = r.hi
           /\ uart' = [UartEdge(uart, tx_ready) EXCEPT !.idle = @ + 1]
    /\ TopFrame

BcpTopNext ==
    \/ TopIssue
    \/ TopStrobe
    \/ TopGap
    \/ TopWait
    \/ TopIdle

SpecTop == TopInit /\ [][BcpTopNext]_vars

\* ── ImplicationFIFO under its test bench as a state machine ───────────────
\* testbench() of test_implication_fifo.py: one clock edge per action with
\* push_valid, pop_ready or both held high. hw.fifo is the FIFO; tb keeps the
\* number of push attempts (n), the inputs of the last edge (push, pop) and
\* the words the bench expects the FIFO to hold, oldest first (queue).
MaxPushes == 20

\* The word of the n-th push attempt.
FifoWord(n) == [var |-> 511 - n, value |-> n % 2, reason |-> 8191 - n]

FifoInit ==
    /\ formula = <<>>
    /\ clauses = <<>>
    /\ watches = NewSolver(<<>>).watches
    /\ assigns = [v \in Vars |-> UNASSIGNED]
    /\ levels = [v \in Vars |-> 0]
    /\ reasons = [v \in Vars |-> NoReason]
    /\ activity = [v \in Vars |-> 0]
    /\ var_inc = ActScale
    /\ trail = <<>>
    /\ prop_head = 0
    /\ trail_delimiters = <<>>
    /\ num_decisions = 0
    /\ stats = SolverStats0
    /\ pc = "fifo"
    /\ conflict = NoConflict
    /\ learnt_lits = <<>>
    /\ bt_level = 0
    /\ result = "none"
    /\ hw = HwReset
    /\ sw_run = [result |-> "none", stats |-> SolverStats0]
    /\ tb = [phase |-> "fifo", n |-> 0, push |-> FALSE, pop |-> FALSE, queue |-> <<>>]
    /\ host_if = HostIfReset
    /\ uart = UartOff

\* One clock edge of the FIFO with the given inputs, and what the bench
\* expects of it: a push is taken unless the FIFO is full, a pop unless it
\* is empty.
FifoEdge(pv, pop_ready) ==
    /\ pc = "fifo"
    /\ hw' = [hw EXCEPT !.fifo = FifoStep(@, pv, FifoWord(tb.n), pop_ready)]
    /\ tb' = [tb EXCEPT
                 !.n = IF pv THEN @ + 1 ELSE @,
                 !.push = pv,
                 !.pop = pop_ready,
                 !.queue =
                     LET popped == IF pop_ready /\ @ # <<>> THEN Tail(@) ELSE @
                     IN  IF pv /\ Len(@) < FIFO_DEPTH
                         THEN Append(popped, FifoWord(tb.n)) ELSE popped]
    /\ UNCHANGED <<formula, sw_run, host_if, uart, solverVars, pc, conflict,
                   learnt_lits, bt_level, result>>

\* push(): push_valid for one edge.
FifoPush == tb.n < MaxPushes /\ FifoEdge(TRUE, FALSE)

\* pop(): pop_ready for one edge.
FifoPop == FifoEdge(FALSE, TRUE)

\* Test 6: push_valid and pop_ready on the same edge.
FifoPushPop == tb.n < MaxPushes /\ FifoEdge(TRUE, TRUE)

FifoBenchNext ==
    \/ FifoPush
    \/ FifoPop
    \/ FifoPushPop

SpecFifo == FifoInit /\ [][FifoBenchNext]_vars

\* ── ClauseEvaluator under its test bench as a state machine ──────────────
\* testbench() of test_clause_evaluator.py: the assignments are written,
\* one clause is presented for one cycle (submit_clause) and the result is
\* read when result_valid rises (wait_result). hw.pf holds the clause at the
\* evaluator's input ports, hw.amem the assignments; tb keeps the clause
\* presented: its ID, sat hint, size, its literals and their values.
EvalValues == {HW_UNASSIGNED, HW_FALSE, HW_TRUE}

\* The variable of the i-th literal, and the literal left in the slots
\* beyond the size: x6, which is TRUE.
EvalVar(i) == i

EvalSpareLit == 12

EvalClauseWord(sat, size, lits) ==
    [sat_bit |-> sat, size |-> size,
     lits |-> [k \in 1..MAX_K |-> IF k <= size THEN lits[k] ELSE EvalSpareLit]]

EvalInit ==
    /\ formula = <<>>
    /\ clauses = <<>>
    /\ watches = NewSolver(<<>>).watches
    /\ assigns = [v \in Vars |-> UNASSIGNED]
    /\ levels = [v \in Vars |-> 0]
    /\ reasons = [v \in Vars |-> NoReason]
    /\ activity = [v \in Vars |-> 0]
    /\ var_inc = ActScale
    /\ trail = <<>>
    /\ prop_head = 0
    /\ trail_delimiters = <<>>
    /\ num_decisions = 0
    /\ stats = SolverStats0
    /\ pc = "eval"
    /\ conflict = NoConflict
    /\ learnt_lits = <<>>
    /\ bt_level = 0
    /\ result = "none"
    /\ sw_run = [result |-> "none", stats |-> SolverStats0]
    /\ host_if = HostIfReset
    /\ uart = UartOff
    /\ \E size \in 1..MAX_K, sat \in {0, 1} :
       \E pol \in [1..size -> {0, 1}], val \in [1..size -> EvalValues] :
           LET lits == [i \in 1..size |-> 2 * EvalVar(i) + pol[i]]
               cid  == MAX_CLAUSES - size
           IN  /\ tb = [phase |-> "submit", cid |-> cid, sat |-> sat, size |-> size,
                        lits |-> lits, vals |-> val]
               /\ hw = [HwReset EXCEPT
                           !.amem = [v \in 1..(MAX_K + 1) |->
                                        IF v <= size THEN val[v] ELSE HW_TRUE],
                           !.pf.buf[0] = [cid |-> cid,
                                          rec |-> EvalClauseWord(sat, size, lits)],
                           !.pf.buf_count = 1]

EvalFrame ==
    UNCHANGED <<formula, sw_run, host_if, uart, solverVars, pc, conflict, learnt_lits,
                bt_level, result>>

\* submit_clause: the edge with meta_valid high; meta_valid is low after it.
EvalSubmit ==
    /\ pc = "eval"
    /\ tb.phase = "submit"
    /\ hw' = [hw EXCEPT !.ev = EvaluatorNext(hw, HostIdle), !.pf.buf_count = 0]
    /\ tb' = [tb EXCEPT !.phase = "wait"]
    /\ EvalFrame

\* wait_result: result_valid is low, one more edge.
EvalWait ==
    /\ pc = "eval"
    /\ tb.phase = "wait"
    /\ ~result_valid(hw)
    /\ hw' = [hw EXCEPT !.ev = EvaluatorNext(hw, HostIdle)]
    /\ UNCHANGED tb
    /\ EvalFrame

\* wait_result returns the result; the result is accepted at the next edge.
EvalRead ==
    /\ pc = "eval"
    /\ tb.phase = "wait"
    /\ result_valid(hw)
    /\ hw' = [hw EXCEPT !.ev = EvaluatorNext(hw, HostIdle)]
    /\ tb' = [tb EXCEPT !.phase = "read"]
    /\ EvalFrame

EvalBenchNext ==
    \/ EvalSubmit
    \/ EvalWait
    \/ EvalRead

SpecEval == EvalInit /\ [][EvalBenchNext]_vars

\* ── ClausePrefetcher under its test bench as a state machine ─────────────
\* PrefetchTestFixture of test_clause_prefetcher.py: the prefetcher wired to
\* a clause memory holding clauses 0, 1, 5 and 100. One clock edge per
\* action: the bench offers a clause ID or not, drives meta_ready or not, or
\* pulses flush. tb keeps the number of edges (n) and the IDs accepted since
\* the last flush whose records the downstream side has not taken (queue).
MaxPfEdges == 8

\* write_clause(0, ...), (1, ...), (5, ...), (100, ...) of the test.
PfMem ==
    (0 :> [sat_bit |-> 0, size |-> 3, lits |-> <<2, 4, 6, 0, 0>>])
    @@ (1 :> [sat_bit |-> 1, size |-> 2, lits |-> <<3, 8, 0, 0, 0>>])
    @@ (5 :> [sat_bit |-> 0, size |-> 3, lits |-> <<5, 9, 10, 0, 0>>])
    @@ (100 :> [sat_bit |-> 0, size |-> 5, lits |-> <<2, 4, 6, 8, 10>>])

PfInit ==
    /\ formula = <<>>
    /\ clauses = <<>>
    /\ watches = NewSolver(<<>>).watches
    /\ assigns = [v \in Vars |-> UNASSIGNED]
    /\ levels = [v \in Vars |-> 0]
    /\ reasons = [v \in Vars |-> NoReason]
    /\ activity = [v \in Vars |-> 0]
    /\ var_inc = ActScale
    /\ trail = <<>>
    /\ prop_head = 0
    /\ trail_delimiters = <<>>
    /\ num_decisions = 0
    /\ stats = SolverStats0
    /\ pc = "pf"
    /\ conflict = NoConflict
    /\ learnt_lits = <<>>
    /\ bt_level = 0
    /\ result = "none"
    /\ hw = [HwReset EXCEPT !.cmem.mem = PfMem]
    /\ sw_run = [result |-> "none", stats |-> SolverStats0]
    /\ tb = [phase |-> "pf", n |-> 0, queue |-> <<>>]
    /\ host_if = HostIfReset
    /\ uart = UartOff

\* One clock edge of the fixture with the given port values. An ID is
\* accepted when clause_id_valid meets clause_id_ready, a record is taken
\* when meta_valid meets meta_ready; a flush ends the interval.
PfEdge(valid, cid, meta_ready, flush) ==
    LET accept == valid /\ pf_clause_id_ready(hw)
        taken  == meta_valid(hw) /\ meta_ready
    IN
    /\ pc = "pf"
    /\ tb.n < MaxPfEdges
    /\ hw' = [hw EXCEPT
                 !.pf = PfStep(@, hw.cmem.stage2, valid, cid, meta_ready, flush),
                 !.cmem = CmemStep(@, FALSE, 0, ZeroClause, accept, cid)]
    /\ tb' = [tb EXCEPT
                 !.n = @ + 1,
                 !.queue = IF flush THEN <<>>
                           ELSE LET rest == IF taken THEN Tail(@) ELSE @
                                IN  IF accept THEN Append(rest, cid) ELSE rest]
    /\ UNCHANGED <<formula, sw_run, host_if, uart, solverVars, pc, conflict,
                   learnt_lits, bt_level, result>>

\* clause_id_valid with one of the stored IDs.
PfOffer == \E cid \in DOMAIN PfMem : \E r \in BOOLEAN : PfEdge(TRUE, cid, r, FALSE)

\* No ID offered.
PfQuiet == \E r \in BOOLEAN : PfEdge(FALSE, 0, r, FALSE)

\* flush for one edge, whatever the other ports carry.
PfFlush ==
    \E v \in BOOLEAN : \E cid \in DOMAIN PfMem : \E r \in BOOLEAN :
        PfEdge(v, cid, r, TRUE)

PfBenchNext ==
    \/ PfOffer
    \/ PfQuiet
    \/ PfFlush

SpecPf == PfInit /\ [][PfBenchNext]_vars

\* ── The post-processing of _analyze on its own ──────────────────────────
\* With NumVars variables a learnt clause never has two literals below the
\* conflict level, so the scan and the swap are also run on their own over
\* learnt lists of up to MaxOrderVars variables and MaxOrderLevel levels:
\* learnt[0] at the conflict level, the other literals on distinct variables
\* at levels 1 .. MaxOrderLevel - 1 (what the marking rule of _analyze admits).
MaxOrderVars == 4
MaxOrderLevel == 3

OrderInputs ==
    LET V  == 1..MaxOrderVars
        C  == 2..(2 * MaxOrderVars + 1)
        Ls == {l \in SeqsUpTo(C, MaxOrderVars) :
                   /\ Len(l) >= 1
                   /\ \A i, j \in 1..Len(l) : i # j => lit_var(l[i]) # lit_var(l[j])}
        At(l, v) == CHOOSE k \in 1..Len(l) : lit_var(l[k]) = v
        Lv(l, g) == [v \in V |->
                        IF v \notin {lit_var(c) : c \in Range(l)} THEN 0
                        ELSE IF At(l, v) = 1 THEN MaxOrderLevel
                        ELSE g[At(l, v)]]
    IN  {[lv |-> Lv(l, g), learnt0 |-> l] :
             l \in Ls, g \in [2..MaxOrderVars -> 1..(MaxOrderLevel - 1)]}

OrderInit ==
    /\ formula = <<>>
    /\ clauses = <<>>
    /\ watches = NewSolver(<<>>).watches
    /\ assigns = [v \in Vars |-> UNASSIGNED]
    /\ levels = [v \in Vars |-> 0]
    /\ reasons = [v \in Vars |-> NoReason]
    /\ activity = [v \in Vars |-> 0]
    /\ var_inc = ActScale
    /\ trail = <<>>
    /\ prop_head = 0
    /\ trail_delimiters = <<>>
    /\ num_decisions = 0
    /\ stats = SolverStats0
    /\ pc = "order"
    /\ conflict = NoConflict
    /\ learnt_lits = <<>>
    /\ bt_level = 0
    /\ result = "none"
    /\ hw = HwReset
    /\ sw_run = [result |-> "none", stats |-> SolverStats0]
    /\ \E x \in OrderInputs :
          tb = [phase |-> "order", lv |-> x.lv, learnt0 |-> x.learnt0]
    /\ host_if = HostIfReset
    /\ uart = UartOff

\* _analyze, lines 255-270: bt_level and the learnt list it returns.
OrderApply ==
    /\ pc = "order"
    /\ LET wo == WatchOrder(tb.lv, tb.learnt0) IN
         /\ learnt_lits' = wo.learnt
         /\ bt_level' = wo.bt_level
    /\ pc' = "ordered"
    /\ UNCHANGED <<formula, hw, sw_run, tb, host_if, uart, solverVars, conflict, result>>

SpecLearn == (Init \/ OrderInit) /\ [][Next \/ OrderApply]_vars

\* ── The upload of a learnt clause on its own ────────────────────────────
\* A learnt clause has one literal per decision level it depends on, so with
\* more variables than NumVars it outgrows the MAX_K slots of a clause word.
\* The bridge's insert-and-upload step (hw_bcp_sim.py lines 232-235) is run
\* on its own after _hw_init of the two clauses
\*   (x6 or x7 or x1 or x2 or x3), (x6 or not x7 or x3 or x4 or x5),
\* for learnt lists of 2 .. MaxLearntLen literals on distinct variables. With
\* x1 .. x6 decided FALSE in this order, _analyze returns the learnt clause
\* (x6 or x5 or x4 or x3 or x1 or x2) for this formula.
MaxUploadVars == 7
MaxLearntLen == 6

UploadFormula == <<(<<6, 7, 1, 2, 3>>), (<<6, -7, 3, 4, 5>>)>>

UploadLearnts ==
    {[k \in 1..n |-> 2 * k + b[k]] :
        n \in 2..MaxLearntLen, b \in [1..MaxLearntLen -> {0, 1}]}

UploadInit ==
    LET cl == [i \in 1..Len(UploadFormula) |->
                  [size   |-> Len(UploadFormula[i]),
                   learnt |-> FALSE,
                   lits   |-> [k \in 1..Len(UploadFormula[i]) |->
                                  lit_to_code(UploadFormula[i][k])]]]
        wl == [c \in 0..(2 * MaxUploadVars + 1) |->
                  IF c = 12 THEN <<0, 1>>
                  ELSE IF c = 14 THEN <<0>>
                  ELSE IF c = 15 THEN <<1>>
                  ELSE <<>>]
        h1 == WriteClause(HwReset, 0, cl[1].size, 0, cl[1].lits)
        h2 == WriteClause(h1, 1, cl[2].size, 0, cl[2].lits)
        h3 == WriteWatchList(h2, 12, wl[12])
        h4 == WriteWatchList(h3, 14, wl[14])
    IN
    /\ formula = UploadFormula
    /\ clauses = cl
    /\ watches = wl
    /\ assigns = [v \in Vars |-> UNASSIGNED]
    /\ levels = [v \in Vars |-> 0]
    /\ reasons = [v \in Vars |-> NoReason]
    /\ activity = [v \in Vars |-> 0]
    /\ var_inc = ActScale
    /\ trail = <<>>
    /\ prop_head = 0
    /\ trail_delimiters = <<>>
    /\ num_decisions = 0
    /\ stats = SolverStats0
    /\ pc = "hw_learnt"
    /\ conflict = NoConflict
    /\ learnt_lits \in UploadLearnts
    /\ bt_level = 0
    /\ result = "none"
    /\ hw = WriteWatchList(h4, 15, wl[15])
    /\ sw_run = [result |-> "none", stats |-> SolverStats0]
    /\ tb = TbOff
    /\ host_if = HostIfReset
    /\ uart = UartOff

\* _run_solve, lines 232-235: ci = _add_learnt_clause(learnt_lits), then
\* _hw_upload_learnt(ci).
UploadLearnt ==
    /\ pc = "hw_learnt"
    /\ LET ci == Len(clauses)
           s1 == AddLearntClause(Cur, learnt_lits, TRUE)
       IN  /\ SetSolver(s1)
           /\ hw' = HwUploadLearnt(s1, hw, ci)
    /\ pc' = "hw_uploaded"
    /\ UNCHANGED <<formula, sw_run, tb, host_if, uart, conflict, learnt_lits, bt_level, result>>

SpecUpload == UploadInit /\ [][UploadLearnt]_vars

\* ── Definitions used by the properties ───────────────────────────────────
\* The points of the solve loop between two calls.
LoopPoints == {"propagate", "conflict", "noconflict"}

\* The input clause i as literal codes.
InputCodes(i) == [k \in 1..Len(formula[i]) |-> lit_to_code(formula[i][k])]

\* Does the total assignment a satisfy every clause of the input formula?
Models(a) ==
    \A i \in 1..Len(formula) : \E k \in 1..Len(formula[i]) :
        LitValue(a, lit_to_code(formula[i][k])) = 1

Satisfiable == \E a \in [Vars -> {0, 1}] : Models(a)

\* Positions of a clause by value under the current assignment.
PosWith(lits, val) == {k \in 1..Len(lits) : LitValue(assigns, lits[k]) = val}

AllFalse(lits) == PosWith(lits, 0) = 1..Len(lits)

UnitUnpropagated(lits) ==
    /\ Cardinality(PosWith(lits, UNASSIGNED)) = 1
    /\ Cardinality(PosWith(lits, 0)) = Len(lits) - 1

DistinctLits(lits) == \A i, j \in 1..Len(lits) : i # j => lits[i] # lits[j]

\* The implication graph of the current decision level d = num_decisions:
\* an edge u -> v when u occurs in the reason clause of v, an edge u -> conflict
\* when u occurs in the conflict clause.
LevelVars == {v \in Vars : assigns[v] # UNASSIGNED /\ levels[v] = num_decisions}

ClauseVars(ci) == {lit_var(l) : l \in Range(clauses[ci + 1].lits)}

Succ(u) == {v \in LevelVars : v # u /\ reasons[v] >= 0 /\ u \in ClauseVars(reasons[v])}

ConflictPreds == ClauseVars(conflict) \cap LevelVars

RECURSIVE Closure(_, _)
Closure(S, removed) ==
    LET T == (S \cup UNION {Succ(u) : u \in S}) \ {removed}
    IN  IF T = S THEN S ELSE Closure(T, removed)

DecisionVar == lit_var(trail[trail_delimiters[num_decisions] + 1])

\* p is a unique implication point: it leads to the conflict, and without it
\* the decision of the level does not.
IsUIP(p) ==
    /\ p \in LevelVars
    /\ Closure({p}, 0) \cap ConflictPreds # {}
    /\ Closure({DecisionVar} \ {p}, p) \cap ConflictPreds = {}

TrailPos(v) == CHOOSE i \in 1..Len(trail) : lit_var(trail[i]) = v

\* The first UIP: the unique implication point closest to the conflict.
FirstUIP ==
    CHOOSE p \in Vars : IsUIP(p) /\ \A q \in Vars : IsUIP(q) => TrailPos(q) <= TrailPos(p)

MaxOf(S) == IF S = {} THEN 0 ELSE CHOOSE x \in S : \A y \in S : y <= x

\* The solver at the start of the last watch-list walk of _propagate_sw
\* called on s (prop_head already advanced past the walked literal).
RECURSIVE LastWalkStart(_)
LastWalkStart(s) ==
    IF s.prop_head >= Len(s.trail) THEN s
    ELSE LET s1 == [s EXCEPT !.prop_head = @ + 1, !.stats.propagations = @ + 1]
             r  == WalkWatchList(s1, lit_neg(s.trail[s.prop_head + 1]), 0, 0)
         IN  IF r.conflict # NoConflict THEN s1 ELSE LastWalkStart(r.s)

\* Is a a subsequence of b (the entries of a occur in b in the same order)?
RECURSIVE IsSubseq(_, _)
IsSubseq(a, b) ==
    IF a = <<>> THEN TRUE
    ELSE IF b = <<>> THEN FALSE
    ELSE IF Head(a) = Head(b) THEN IsSubseq(Tail(a), Tail(b))
    ELSE IsSubseq(a, Tail(b))

\* The number of watch-list entries of clause ci over the lists of codes.
RECURSIVE WatcherCount(_, _, _)
WatcherCount(w, codes, ci) ==
    IF codes = {} THEN 0
    ELSE LET code == CHOOSE x \in codes : TRUE
         IN  Count(w[code], ci) + WatcherCount(w, codes \ {code}, ci)


\* ── The accelerator's memories as the host filled them ───────────────────
\* The watch list stored for literal code F: entries 0..len-1.
StoredWatchList(h, F) ==
    [i \in 1..MemRead(h.wmem.len_mem, F, 0) |->
        MemRead(h.wmem.cid_mem, F * MAX_WATCH_LEN + i - 1, 0)]

\* The literals of the clause stored under cid: slots 0..size-1.
StoredLits(h, cid) ==
    LET rec == MemRead(h.cmem.mem, cid, ZeroClause) IN [k \in 1..rec.size |-> rec.lits[k]]

\* The value of a literal code under the assignment memory.
StoredLitValue(h, lit) ==
    LET a == MemRead(h.amem, lit \div 2, HW_UNASSIGNED) IN
    IF a = HW_UNASSIGNED THEN "UNASSIGNED"
    ELSE IF (lit % 2 = 0 /\ a = HW_TRUE) \/ (lit % 2 = 1 /\ a = HW_FALSE) THEN "TRUE"
    ELSE "FALSE"

StoredPositions(h, cid, val) ==
    {k \in 1..Len(StoredLits(h, cid)) : StoredLitValue(h, StoredLits(h, cid)[k]) = val}

StoredAllFalse(h, cid) ==
    StoredPositions(h, cid, "FALSE") = 1..Len(StoredLits(h, cid))

StoredUnit(h, cid) ==
    /\ Cardinality(StoredPositions(h, cid, "UNASSIGNED")) = 1
    /\ StoredPositions(h, cid, "TRUE") = {}

\* The implication a UNIT clause stands for.
ImplicationOf(h, cid) ==
    LET k   == CHOOSE x \in StoredPositions(h, cid, "UNASSIGNED") : TRUE
        lit == StoredLits(h, cid)[k]
    IN  [var |-> lit \div 2, value |-> IF lit % 2 = 0 THEN 1 ELSE 0, reason |-> cid]

\* One implication per UNIT clause of the list wl, in list order.
RECURSIVE ExpectedImplications(_, _)
ExpectedImplications(h, wl) ==
    IF wl = <<>> THEN <<>>
    ELSE IF StoredUnit(h, Head(wl))
    THEN <<ImplicationOf(h, Head(wl))>> \o ExpectedImplications(h, Tail(wl))
    ELSE ExpectedImplications(h, Tail(wl))

\* ── Properties ───────────────────────────────────────────────────────────

\* C1: for every formula within the HW limits, the run with the software
\* propagator and the run with the HW bridge return the same SAT/UNSAT
\* verdict and the same final counts of decisions, conflicts and
\* implications.
C1_SameOutcome ==
    pc = "hw_done" =>
        /\ result = sw_run.result
        /\ stats.decisions = sw_run.stats.decisions
        /\ stats.conflicts = sw_run.stats.conflicts
        /\ stats.implications = sw_run.stats.implications

\* C2: whenever solve returns SAT, every variable 1..N is assigned and every
\* clause of the input formula has a literal that is TRUE under the final
\* assignment.
C2_SatIsModel ==
    (pc = "done" /\ result = "SAT") =>
        /\ \A v \in Vars : assigns[v] # UNASSIGNED
        /\ Models(assigns)

C2_Witness ==
    /\ pc = "done" /\ result = "SAT"
    /\ Len(formula) = MaxClauses
    /\ stats.conflicts >= 1
    /\ stats.learned_clauses >= 1

\* C3: whenever solve returns UNSAT, no assignment of the variables satisfies
\* the input formula (exhaustive enumeration).
C3_UnsatIsUnsat ==
    (pc = "done" /\ result = "UNSAT") => ~Satisfiable

C3_Witness ==
    /\ pc = "done" /\ result = "UNSAT"
    /\ stats.conflicts >= 2
    /\ Len(formula) = MaxBinClauses
    /\ \A i \in 1..Len(formula) : Len(formula[i]) = 2 /\ DistinctVars(formula[i])

\* C4: solve terminates on every input formula: it eventually returns SAT or
\* UNSAT.
C4_Terminates == <>(pc = "done" /\ result \in {"SAT", "UNSAT"})

C4_Witness ==
    /\ pc = "done" /\ result \in {"SAT", "UNSAT"}
    /\ stats.decisions >= 3
    /\ stats.conflicts >= 2

\* C5: at every iteration of the solve loop, a trail literal L whose variable
\* has a reason clause C is a literal of C, and every other literal of C is
\* FALSE at a decision level not above that of L.
C5_ReasonSound ==
    pc \in LoopPoints =>
        \A i \in 1..Len(trail) :
            LET L == trail[i]
                r == reasons[lit_var(L)]
            IN  r >= 0 =>
                  /\ L \in Range(clauses[r + 1].lits)
                  /\ \A m \in Range(clauses[r + 1].lits) \ {L} :
                        /\ LitValue(assigns, m) = 0
                        /\ levels[lit_var(m)] <= levels[lit_var(L)]

C5_Witness ==
    /\ pc \in LoopPoints
    /\ \E v \in Vars :
          /\ assigns[v] # UNASSIGNED
          /\ reasons[v] >= 0
          /\ levels[v] >= 1
          /\ clauses[reasons[v] + 1].size = 3
          /\ DistinctLits(clauses[reasons[v] + 1].lits)

\* C6: before and after every call of _propagate_sw and after every learnt
\* clause insertion, a clause of size >= 2 with distinct literals is exactly
\* once in the watch list of lits[0], exactly once in that of lits[1] and in
\* no other watch list; a clause of size 0 or 1 is in no watch list.
C6_WatchesWellFormed ==
    pc \in LoopPoints =>
        \A ci \in 0..(Len(clauses) - 1) :
            LET c == clauses[ci + 1] IN
            /\ (c.size >= 2 /\ DistinctLits(c.lits)) =>
                  \A code \in DOMAIN watches :
                      Count(watches[code], ci) =
                          IF code = c.lits[1] \/ code = c.lits[2] THEN 1 ELSE 0
            /\ c.size < 2 => \A code \in DOMAIN watches : Count(watches[code], ci) = 0

C6_Witness ==
    /\ pc = "conflict"
    /\ \E code \in DOMAIN watches : Len(watches[code]) >= 2
    /\ \E ci \in 0..(Len(clauses) - 1) : clauses[ci + 1].learnt

\* C7: at every point of the solve loop the levels of the trail's variables
\* are non-decreasing from front to back, there are as many delimiters as
\* decision levels, and delimiter i is the trail length at which level i was
\* opened: the literals before it are below level i and the literal at that
\* index is the decision of level i.
C7_TrailLevels ==
    /\ \A i, j \in 1..Len(trail) :
          i < j => levels[lit_var(trail[i])] <= levels[lit_var(trail[j])]
    /\ Len(trail_delimiters) = num_decisions
    /\ \A i \in 1..num_decisions :
          LET d == trail_delimiters[i] IN
          /\ d < Len(trail)
          /\ levels[lit_var(trail[d + 1])] = i
          /\ reasons[lit_var(trail[d + 1])] = NoReason
          /\ \A k \in 1..d : levels[lit_var(trail[k])] < i

C7_Witness ==
    /\ pc = "backtracked"
    /\ num_decisions >= 1
    /\ stats.decisions >= 3
    /\ Len(trail) > trail_delimiters[num_decisions] + 1

\* C8: _analyze, called on a conflict at level d >= 1, returns a learnt clause
\* whose position 0 is the negation of the first UIP and is its only literal
\* at level d; every literal of learnt[1..] has a level strictly between 0
\* and d.
C8_FirstUIP ==
    pc = "analyzed" =>
        /\ Len(learnt_lits) >= 1
        /\ learnt_lits[1] = lit_neg(trail[TrailPos(FirstUIP)])
        /\ levels[lit_var(learnt_lits[1])] = num_decisions
        /\ \A k \in 2..Len(learnt_lits) :
              /\ levels[lit_var(learnt_lits[k])] > 0
              /\ levels[lit_var(learnt_lits[k])] < num_decisions

C8_Witness ==
    /\ pc = "analyzed"
    /\ Len(learnt_lits) >= 2
    /\ FirstUIP # DecisionVar

C11_ConflictExit ==
    [][(Propagate /\ conflict' >= 0) =>
          LET pre == LastWalkStart(Cur)
              C   == conflict'
              F   == clauses'[C + 1].lits[2]
              w0  == pre.watches[F]
              w1  == watches'[F]
          IN  /\ \A k \in 1..Len(clauses'[C + 1].lits) :
                    LitValue(assigns', clauses'[C + 1].lits[k]) = 0
              /\ prop_head' \in 1..Len(trail')
              /\ lit_neg(trail'[prop_head']) = F
              /\ prop_head' - prop_head = stats'.propagations - stats.propagations
              /\ \E q \in 1..Len(w1) :
                    LET p == Len(w0) - Len(w1) + q IN
                    /\ w1[q] = C
                    /\ p >= q
                    /\ w0[p] = C
                    /\ SubSeq(w1, q + 1, Len(w1)) = SubSeq(w0, p + 1, Len(w0))
                    /\ IsSubseq(SubSeq(w1, 1, q - 1), SubSeq(w0, 1, p - 1))
              /\ \A ci \in 0..(Len(clauses) - 1) :
                    WatcherCount(watches', DOMAIN watches, ci)
                        = WatcherCount(watches, DOMAIN watches, ci)
    ]_vars

\* A conflict found in the middle of a watch list: a watcher is left behind
\* the conflicting clause, and a watcher was kept in front of it.
C11_Witness ==
    /\ pc = "conflict"
    /\ conflict >= 0
    /\ LET w == watches[lit_neg(trail[prop_head])] IN
       \E q \in 2..(Len(w) - 1) : w[q] = conflict

\* C12: _backtrack(l), called at decision level d > l, truncates the trail to
\* the length recorded in the delimiter of level l+1, sets every removed
\* variable to UNASSIGNED with reason NULL, leaves value, level and reason of
\* every remaining trail variable unchanged, truncates the delimiters to
\* length l, sets the decision level to l and prop_head to len(trail);
\* afterwards every trail variable has level <= l.
C12_BacktrackEffect ==
    [][(BacktrackStep /\ num_decisions > bt_level) =>
          LET keep    == trail_delimiters[bt_level + 1]
              removed == {lit_var(trail[k]) : k \in (keep + 1)..Len(trail)}
              kept    == {lit_var(trail[k]) : k \in 1..keep}
          IN  /\ trail' = SubSeq(trail, 1, keep)
              /\ \A v \in removed : assigns'[v] = UNASSIGNED /\ reasons'[v] = NoReason
              /\ \A v \in kept :
                    /\ assigns'[v] = assigns[v]
                    /\ levels'[v] = levels[v]
                    /\ reasons'[v] = reasons[v]
              /\ trail_delimiters' = SubSeq(trail_delimiters, 1, bt_level)
              /\ num_decisions' = bt_level
              /\ prop_head' = Len(trail')
              /\ \A k \in 1..Len(trail') : levels'[lit_var(trail'[k])] <= bt_level
    ]_vars

\* A backtrack to a level above 0 that unwound two variables, one of them
\* implied, and kept a part of the trail.
C12_Witness ==
    /\ pc = "backtracked"
    /\ num_decisions >= 1
    /\ Len(trail) >= 1
    /\ \E u, v \in Vars :
          /\ u # v
          /\ assigns[u] = UNASSIGNED /\ levels[u] > num_decisions
          /\ assigns[v] = UNASSIGNED /\ levels[v] > num_decisions

\* C13: _pick_decision_var, at every point where solve calls it, returns the
\* unassigned variable with the largest activity, the lowest index among
\* ties, and returns 0 if and only if every variable 1..N is assigned.
C13_PickMaxActivity ==
    pc = "noconflict" =>
        LET U == {u \in Vars : assigns[u] = UNASSIGNED}
            v == PickDecisionVar(Cur)
        IN  /\ (v = 0) <=> (U = {})
            /\ v # 0 =>
                  /\ v \in U
                  /\ \A u \in U : activity[u] <= activity[v]
                  /\ \A u \in U : activity[u] = activity[v] => v <= u

\* The pick is decided by activity against the index order: a variable of
\* lower index is unassigned but less active than the one picked.
C13_Witness ==
    /\ pc = "noconflict"
    /\ \E u \in Vars :
          /\ u < PickDecisionVar(Cur)
          /\ assigns[u] = UNASSIGNED
          /\ activity[u] < activity[PickDecisionVar(Cur)]

\* The input has an empty clause.
HasEmptyClause == \E i \in 1..Len(formula) : formula[i] = <<>>

\* The input has a unit clause behind a unit clause of the opposite literal.
HasOpposedUnits ==
    \E i \in 1..Len(formula) : \E j \in 1..(i - 1) :
        /\ Len(formula[i]) = 1
        /\ Len(formula[j]) = 1
        /\ formula[j][1] = 0 - formula[i][1]

\* C14: if the formula contains an empty clause, or a unit clause whose
\* literal is already FALSE when the preflight scan reaches it, solve (in the
\* software run and in the HW-bridge run) never gets past the preflight scan
\* and returns UNSAT with zero decisions and zero propagations.
C14_PreflightUnsat ==
    (HasEmptyClause \/ HasOpposedUnits) =>
        /\ pc \in {"preflight", "done", "hw_init", "hw_preflight", "hw_done"}
        /\ pc \in {"done", "hw_done"} =>
              /\ result = "UNSAT"
              /\ stats.decisions = 0
              /\ num_decisions = 0
              /\ stats.propagations = 0
              /\ stats.conflicts = 0

\* Both runs have returned on a formula without empty clause whose second
\* unit clause contradicts the first, which was enqueued.
C14_Witness ==
    /\ pc = "hw_done"
    /\ sw_run.result = "UNSAT"
    /\ HasOpposedUnits
    /\ ~HasEmptyClause
    /\ Len(trail) = 1

\* C15 as claimed: for a formula with zero clauses (and any number of
\* variables), solve returns SAT and the decision counter is 0.
C15_ZeroDecisions ==
    (formula = <<>> /\ pc = "done") => (result = "SAT" /\ stats.decisions = 0)

\* C15, amended: for a formula with zero clauses over N variables, solve
\* returns SAT without conflict after deciding every variable FALSE, one
\* decision per variable: the decision counter is N.
C15_EmptyFormulaSat ==
    (formula = <<>> /\ pc = "done") =>
        /\ result = "SAT"
        /\ stats.decisions = NumVars
        /\ num_decisions = NumVars
        /\ stats.conflicts = 0
        /\ \A v \in Vars : assigns[v] = 0 /\ reasons[v] = NoReason /\ levels[v] = v

C15_Witness ==
    /\ formula = <<>>
    /\ pc = "done"
    /\ result = "SAT"
    /\ Len(trail) = NumVars

\* The started watch list holds a clause whose literals are all FALSE under
\* the assignment memory.
RoundHasAllFalse ==
    LET wl == StoredWatchList(hw, tb.F)
    IN  \E i \in 1..Len(wl) : StoredAllFalse(hw, wl[i])

\* The ID of the first all-FALSE clause of the started watch list.
FirstAllFalse ==
    LET wl == StoredWatchList(hw, tb.F)
        i  == CHOOSE k \in 1..Len(wl) :
                  /\ StoredAllFalse(hw, wl[k])
                  /\ \A j \in 1..(k - 1) : ~StoredAllFalse(hw, wl[j])
    IN  wl[i]

\* C16: a round started on an idle accelerator with an empty implication FIFO,
\* on a watch list without an all-FALSE clause, reaches done (the host never
\* waits MaxCycles cycles for it) with conflict = 0, and the FIFO then holds
\* exactly the implications of the UNIT clauses of the list, in list order.
C16_RoundImplications ==
    (tb.phase = "run" /\ tb.fifo0 = 0 /\ ~RoundHasAllFalse)
        => /\ tb.cycles < MaxCycles
           /\ hw_done(hw) =>
                  /\ ~hw_conflict(hw)
                  /\ FifoContents(hw)
                        = ExpectedImplications(hw, StoredWatchList(hw, tb.F))

\* C17: a round whose started watch list holds an all-FALSE clause reaches
\* done (the host never waits MaxCycles cycles for it) with conflict = 1 and
\* conflict_clause_id the ID of the first such clause in watch-list order.
C17_RoundConflict ==
    (tb.phase = "run" /\ RoundHasAllFalse)
        => /\ tb.cycles < MaxCycles
           /\ hw_done(hw) =>
                  /\ hw_conflict(hw)
                  /\ hw.top.conflict_cid_reg = FirstAllFalse

\* C18: a round started on a false_lit whose watch list has length 0 asserts
\* done within 5 cycles of the start pulse, pushes nothing into the FIFO and
\* latches no conflict.
C18_EmptyList ==
    (tb.phase = "run" /\ hw.wmem.len_mem[tb.F] = 0)
        => /\ tb.cycles <= 5
           /\ (tb.cycles = 5 => hw_done(hw))
           /\ hw.fifo.count = tb.fifo0
           /\ hw.fifo.wr_ptr = tb.wr0
           /\ ~hw_conflict(hw)

\* The software value an implication entry stands for.
ImplValue(e) == IF e.value = 1 THEN 1 ELSE 0

\* The trail code of an implication entry.
ImplCode(e) == IF e.value = 1 THEN 2 * e.var ELSE 2 * e.var + 1

\* The value of the variable of Q[i] when Q[i] is popped: its value in a
\* if it has one, else the value of the first earlier entry on it.
ValueAtPop(a, Q, i) ==
    LET v == Q[i].var IN
    IF a[v] # UNASSIGNED THEN a[v]
    ELSE IF \E j \in 1..(i - 1) : Q[j].var = v
    THEN ImplValue(Q[CHOOSE j \in 1..(i - 1) :
                         /\ Q[j].var = v
                         /\ \A k \in 1..(j - 1) : Q[k].var # v])
    ELSE UNASSIGNED

\* One round of _hw_propagate without hardware conflict treats the FIFO
\* contents Q, in order, as C19 says.
DrainsInFifoOrder(r) ==
    LET Q     == FifoContents(r.hd)
        a     == r.s0.assigns
        fresh == SelectSeq([i \in 1..Len(Q) |-> i],
                           LAMBDA i : ValueAtPop(a, Q, i) = UNASSIGNED)
        opp   == {i \in 1..Len(Q) :
                     ValueAtPop(a, Q, i) \notin {UNASSIGNED, ImplValue(Q[i])}}
    IN  /\ r.s2.trail = r.s0.trail \o [k \in 1..Len(fresh) |-> ImplCode(Q[fresh[k]])]
        /\ \A k \in 1..Len(fresh) :
               LET e == Q[fresh[k]] IN
               /\ r.s2.assigns[e.var] = ImplValue(e)
               /\ r.s2.levels[e.var] = r.s0.num_decisions
               /\ r.s2.reasons[e.var] = e.reason
               /\ MemRead(r.h2.amem, e.var, HW_UNASSIGNED)
                     = sw_to_hw_assign(ImplValue(e))
        /\ \A v \in 1..NumVars :
               (\A k \in 1..Len(fresh) : Q[fresh[k]].var # v)
                   => /\ r.s2.assigns[v] = a[v]
                      /\ r.s2.levels[v] = r.s0.levels[v]
                      /\ r.s2.reasons[v] = r.s0.reasons[v]
                      /\ MemRead(r.h2.amem, v, HW_UNASSIGNED)
                            = MemRead(r.hd.amem, v, HW_UNASSIGNED)
        /\ r.s2.num_decisions = r.s0.num_decisions
        /\ r.conflict = IF opp = {} THEN NoConflict
                        ELSE Q[CHOOSE i \in opp : \A j \in opp : i <= j].reason

\* C19: in every round of _hw_propagate that ends without a hardware
\* conflict the popped implications are applied in FIFO order: an unassigned
\* variable gets the implied value at the current decision level with the
\* implication's reason, joins the trail and is written to the assignment
\* memory; an implication of the value a variable already has changes
\* nothing; the first implication of the opposite value gives the conflict
\* that _hw_propagate returns.
C19_DrainOrder ==
    [][HwBcp =>
        LET R == HwRounds(Cur, hw) IN
        /\ \A i \in 1..Len(R) : R[i].kind = "ok" => DrainsInFifoOrder(R[i])
        /\ (Len(R) > 0 /\ R[Len(R)].kind = "ok")
              => /\ conflict' = R[Len(R)].conflict
                 /\ trail' = R[Len(R)].s2.trail
                 /\ assigns' = R[Len(R)].s2.assigns]_vars

\* _hw_propagate has returned a conflict that the accelerator did not latch:
\* an implication of the last round was applied and a later one of the same
\* round contradicted the assignment.
C19_Witness ==
    /\ pc = "hw_conflict"
    /\ ~hw_conflict(hw)
    /\ fifo_empty(hw)
    /\ conflict >= 0
    /\ \E v \in 1..NumVars :
           /\ assigns[v] # UNASSIGNED
           /\ levels[v] = num_decisions
           /\ reasons[v] \notin {NoReason, conflict}
           /\ MemRead(hw.amem, v, HW_UNASSIGNED) = sw_to_hw_assign(assigns[v])
           /\ \E k \in 1..clauses[conflict + 1].size :
                  lit_var(clauses[conflict + 1].lits[k]) = v

\* The assignment memory of h agrees with the software values a:
\* UNASSIGNED/FALSE/TRUE is 0/1/2.
MemAgrees(a, h) ==
    \A v \in 1..NumVars :
        MemRead(h.amem, v, HW_UNASSIGNED) = sw_to_hw_assign(a[v])

\* C20: in the HW-bridge run the assignment memory agrees with the software
\* assignment of every variable at each start pulse of _hw_propagate and
\* when _hw_propagate returns; a variable unassigned by a backtrack is
\* therefore 0 in the memory at the next start.
C20_AssignMirror ==
    /\ pc = "hw_propagate" =>
           LET R == HwRounds(Cur, hw) IN
           \A i \in 1..Len(R) : MemAgrees(R[i].s0.assigns, R[i].h0)
    /\ pc \in {"hw_conflict", "hw_noconflict"} => MemAgrees(assigns, hw)

\* A start pulse is about to be issued after a backtrack has unassigned a
\* variable that is still unassigned: it was written in the memory when it
\* was decided, and the memory holds 0 for it again.
C20_Witness ==
    /\ pc = "hw_propagate"
    /\ prop_head < Len(trail)
    /\ stats.conflicts >= 1
    /\ stats.decisions > num_decisions
    /\ \E v \in 1..NumVars :
           /\ assigns[v] = UNASSIGNED
           /\ v \in DOMAIN hw.amem
           /\ hw.amem[v] = HW_UNASSIGNED
    /\ \E v \in 1..NumVars : assigns[v] # UNASSIGNED /\ MemAgrees(assigns, hw)

\* The (variable, value) pairs a trail assigns.
TrailPairs(t) == {<<lit_var(t[i]), t[i] % 2>> : i \in 1..Len(t)}

\* C21: from the same solver state _propagate_sw and _hw_propagate return
\* the same kind of outcome (conflict or no conflict), and without conflict
\* they leave the same set of assigned (variable, value) pairs on the trail.
\* The state compared is the one of the first propagation call of a run,
\* which the software run and the HW-bridge run share: the watch lists are
\* those of the input formula and the accelerator holds a copy of them.
C21_SamePropagation ==
    (pc = "hw_propagate" /\ stats.propagations = 0) =>
        LET sw == PropagateSW(Cur)
            h  == HwPropagate(Cur, hw)
        IN  ~h.timeout =>
                /\ (sw.conflict >= 0) = (h.conflict >= 0)
                /\ (sw.conflict < 0 /\ h.conflict < 0)
                      => TrailPairs(sw.s.trail) = TrailPairs(h.s.trail)

\* C22: a start pulse accepted in IDLE is followed after finitely many
\* cycles by done although the host pops the FIFO only after done. The
\* accelerator is deterministic and the waiting host holds its inputs, so
\* done follows unless a waiting state repeats: while the host waits, the
\* accelerator is never in a state that an idle clock edge leaves unchanged.
C22_RoundTerminates ==
    (tb.phase = "run" /\ ~hw_done(hw)) => Tick(hw, HostIdle) # hw

\* The bytes of one implication packet and of the terminator, as
\* recv_response of test_integration.py reads them.
ImplPacket(e) ==
    <<RSP_IMPLICATION, Hi8(e.var), Lo8(e.var), e.value, Hi8(e.reason), Lo8(e.reason)>>

DonePacket(conf, cid) ==
    IF conf THEN <<RSP_DONE_CONF, Hi8(cid), Lo8(cid), 0>> ELSE <<RSP_DONE_OK, 0, 0, 0>>

RECURSIVE ImplPackets(_)
ImplPackets(fifo) ==
    IF fifo = <<>> THEN <<>> ELSE ImplPacket(Head(fifo)) \o ImplPackets(Tail(fifo))

IsPrefix(a, b) == Len(a) <= Len(b) /\ a = SubSeq(b, 1, Len(a))

\* C23: the bytes HostInterface emits for one BCP_START are, after done, one
\* 6-byte 0xB0 packet per implication that was in the FIFO at done, in FIFO
\* order, then one 4-byte terminator (0xC1 with the latched conflict clause
\* ID, else 0xC0); nothing is emitted before done, and nothing after the
\* terminator until the next BCP_START.
C23_ResponseFraming ==
    pc = "top" =>
        /\ ~uart.resp => uart.tx = <<>>
        /\ uart.resp =>
              IsPrefix(uart.tx,
                       ImplPackets(uart.fifo0) \o DonePacket(uart.conf0, uart.cid0))

\* The ports a command is meant to drive for one cycle: its own enable (or
\* start) with its fields, every other port idle.
ExpectedPorts(c) ==
    IF c.op = CMD_WRITE_CLAUSE
    THEN [HostIdle EXCEPT
            !.clause_wr_en = TRUE,
            !.clause_wr_addr = c.cid,
            !.clause_wr_data =
                [sat_bit |-> c.sat, size |-> c.size,
                 lits |-> [k \in 1..MAX_K |->
                              IF k <= Len(c.lits) THEN c.lits[k] ELSE 0]]]
    ELSE IF c.op = CMD_WRITE_WL_ENTRY
    THEN [HostIdle EXCEPT !.wl_wr_en = TRUE, !.wl_wr_lit = c.lit, !.wl_wr_idx = c.idx,
                          !.wl_wr_data = c.cid]
    ELSE IF c.op = CMD_WRITE_WL_LEN
    THEN [HostIdle EXCEPT !.wl_wr_len_en = TRUE, !.wl_wr_lit = c.lit,
                          !.wl_wr_len = c.len]
    ELSE IF c.op = CMD_WRITE_ASSIGN
    THEN [HostIdle EXCEPT !.assign_wr_en = TRUE, !.assign_wr_addr = c.var,
                          !.assign_wr_data = c.val]
    ELSE IF c.op = CMD_BCP_START
    THEN [HostIdle EXCEPT !.start = TRUE, !.false_lit = c.lit]
    ELSE HostIdle

\* The last n elements of s.
LastN(s, n) == SubSeq(s, Len(s) - n + 1, Len(s))

\* recv_response: the fields of a response packet, big-endian.
DecodeImpl(p) ==
    [var |-> p[2] * 256 + p[3], value |-> p[4], reason |-> p[5] * 256 + p[6]]

DecodeDone(p) == [conflict |-> p[1] = RSP_DONE_CONF, cid |-> p[2] * 256 + p[3]]

\* A command with a write enable or a start has been sent completely and
\* HostInterface is past CMD_EXEC.
CommandExecuted ==
    /\ pc = "top"
    /\ uart.cmd.op \in CMD_WRITE_CLAUSE..CMD_BCP_START
    /\ uart.rx = <<>>
    /\ ~uart.strobe

\* C24: a command sent byte by byte as command byte and big-endian payload
\* of 14, 5, 3, 3 or 2 bytes drives exactly one enable or start pulse, one
\* cycle long, of the command's kind with the command's field values, and no
\* other enable; the six bytes of an implication packet decode big-endian
\* to the FIFO entry that is popped with the packet's last byte, and the
\* four bytes of a terminator to the accelerator's conflict flag and
\* conflict clause ID.
C24_CodecRoundTrip ==
    /\ [](pc = "top" =>
            /\ uart.pulses <= 1
            /\ uart.pulses = 1 => uart.pulse = ExpectedPorts(uart.cmd)
            /\ CommandExecuted => uart.pulses = 1
            /\ Len(uart.rx) <= Len(EncodeCmd(uart.cmd))
            /\ uart.cmd.op \in CMD_WRITE_CLAUSE..CMD_BCP_START =>
                  Len(EncodeCmd(uart.cmd)) =
                      1 + CASE uart.cmd.op = CMD_WRITE_CLAUSE -> 14
                            [] uart.cmd.op = CMD_WRITE_WL_ENTRY -> 5
                            [] uart.cmd.op = CMD_BCP_START -> 2
                            [] OTHER -> 3)
    /\ [][/\ (host_if.fsm = "IMPL_SEND" /\ host_if'.fsm = "IMPL_CHECK")
                => DecodeImpl(LastN(uart'.tx, 6)) = FifoHead(hw)
          /\ (host_if.fsm = "DONE_SEND" /\ host_if'.fsm = "CMD_WAIT")
                => DecodeDone(LastN(uart'.tx, 4)) =
                       [conflict |-> hw_conflict(hw), cid |-> hw.top.conflict_cid_reg]]_vars

C24_Witness ==
    /\ CommandExecuted
    /\ uart.cmd = CmdBcpStart(TopLitA)
    /\ uart.pulse = ExpectedPorts(uart.cmd)
    /\ Len(uart.tx) = 16
    /\ DecodeImpl(SubSeq(uart.tx, 1, 6)) = [var |-> 257, value |-> 1, reason |-> TopUnitWide]
    /\ DecodeDone(LastN(uart.tx, 4)) = [conflict |-> FALSE, cid |-> 0]

\* C25: once a RESET_STATE command (0x06, no payload) has been executed, the
\* top-level FSM of the accelerator is IDLE and the conflict latch, the
\* WLM-done latch and the in-flight counter are cleared.
C25_ResetClears ==
    (/\ pc = "top"
     /\ uart.cmd = CmdResetState
     /\ uart.rx = <<>>
     /\ ~uart.strobe
     /\ host_if.fsm = "CMD_WAIT")
        => /\ hw.top.fsm = "IDLE"
           /\ ~hw.top.conflict_reg
           /\ ~hw.top.wlm_done_seen
           /\ hw.top.in_flight = 0

\* C26: the implication FIFO holds exactly the accepted pushes that were not
\* popped yet, oldest at the head and each word unchanged, so entries leave
\* in push order and each exactly once; its count is the number of words
\* held and never exceeds the depth; a push while full and a pop while empty
\* leave count, pointers and contents unchanged; a simultaneous push and pop
\* on a FIFO neither empty nor full leaves the count unchanged.
C26_FifoContract ==
    /\ [](pc = "fifo" =>
            /\ FifoContents(hw) = tb.queue
            /\ hw.fifo.count <= FIFO_DEPTH
            /\ impl_valid(hw) => FifoHead(hw) = Head(tb.queue))
    /\ [][pc = "fifo" =>
            /\ (tb'.push /\ ~tb'.pop /\ fifo_full(hw)) => hw'.fifo = hw.fifo
            /\ (tb'.pop /\ ~tb'.push /\ fifo_empty(hw)) => hw'.fifo = hw.fifo
            /\ (tb'.push /\ tb'.pop /\ ~fifo_full(hw) /\ ~fifo_empty(hw))
                  => /\ hw'.fifo.count = hw.fifo.count
                     /\ FifoContents(hw') = Append(Tail(FifoContents(hw)), FifoWord(tb.n))
            /\ (tb'.pop /\ ~fifo_empty(hw))
                  => hw'.fifo.rd_ptr = (hw.fifo.rd_ptr + 1) % FIFO_DEPTH]_vars

\* The FIFO was filled, a further push was refused, the pointers have
\* wrapped and entries pushed after the wrap are at the head.
C26_Witness ==
    /\ pc = "fifo"
    /\ tb.n = MaxPushes
    /\ hw.fifo.count = 2
    /\ hw.fifo.wr_ptr = MaxPushes - 1 - FIFO_DEPTH
    /\ tb.queue = <<FifoWord(MaxPushes - 2), FifoWord(MaxPushes - 1)>>

\* The literal at position i of the clause presented is TRUE / UNASSIGNED
\* under the values the bench wrote.
EvalLitTrue(i) ==
    \/ tb.lits[i] % 2 = 0 /\ tb.vals[i] = HW_TRUE
    \/ tb.lits[i] % 2 = 1 /\ tb.vals[i] = HW_FALSE

EvalUnassigned == {i \in 1..tb.size : tb.vals[i] = HW_UNASSIGNED}

\* C27: for a clause of size 1..5 the evaluator's result is SATISFIED if the
\* sat hint is set or some literal is TRUE; otherwise CONFLICT with no
\* UNASSIGNED literal, UNIT with exactly one (the implied variable is that
\* literal's variable, the implied value TRUE for a positive and FALSE for a
\* negative literal) and UNRESOLVED with two or more; the result carries the
\* clause's ID.
C27_EvaluatorResult ==
    (pc = "eval" /\ result_valid(hw)) =>
        /\ hw.ev.clause_id_reg = tb.cid
        /\ result_status(hw) =
              IF tb.sat = 1 \/ \E i \in 1..tb.size : EvalLitTrue(i) THEN SATISFIED
              ELSE IF EvalUnassigned = {} THEN CONFLICT
              ELSE IF Cardinality(EvalUnassigned) = 1 THEN UNIT
              ELSE UNRESOLVED
        /\ result_status(hw) = UNIT =>
              \E i \in EvalUnassigned :
                  /\ hw.ev.last_unassigned_lit \div 2 = tb.lits[i] \div 2
                  /\ 1 - (hw.ev.last_unassigned_lit % 2) =
                        (IF tb.lits[i] % 2 = 0 THEN 1 ELSE 0)

\* A clause of size 5 whose only UNASSIGNED literal is a negative one in the
\* middle: UNIT, implied FALSE.
C27_Witness ==
    /\ pc = "eval"
    /\ result_valid(hw)
    /\ tb.size = MAX_K
    /\ tb.sat = 0
    /\ result_status(hw) = UNIT
    /\ tb.vals[3] = HW_UNASSIGNED
    /\ tb.lits[3] % 2 = 1
    /\ hw.ev.last_unassigned_lit = tb.lits[3]

\* The positions of _run_solve at which the host is about to write the
\* memories or to start a round.
HwHostPcs ==
    {"hw_init", "hw_preflight", "hw_propagate", "hw_conflict", "hw_analyzed",
     "hw_backtracked", "hw_noconflict"}

\* One write of each kind, as the bridge drives them.
HostWrites ==
    {[HostIdle EXCEPT !.clause_wr_en = TRUE, !.clause_wr_addr = 1],
     [HostIdle EXCEPT !.wl_wr_en = TRUE, !.wl_wr_lit = 2],
     [HostIdle EXCEPT !.wl_wr_len_en = TRUE, !.wl_wr_lit = 2, !.wl_wr_len = 1],
     [HostIdle EXCEPT !.assign_wr_en = TRUE, !.assign_wr_addr = 1,
                      !.assign_wr_data = HW_TRUE]}

\* The contents of the three memories.
HwMemories(h) == <<h.cmem.mem, h.wmem.len_mem, h.wmem.cid_mem, h.amem>>

\* C28: in the HW-bridge run every memory write of the host is driven while
\* the top-level FSM is IDLE. The writes of _hw_init, of the unit-clause
\* pass, of a decision, of a backtrack and of a learnt clause are bursts
\* without a start pulse that begin in IDLE and stay there; the writes of
\* the pop loops of _hw_propagate come after the FSM has returned to IDLE.
\* From the start pulse of a round to the begin of its pop loop, where only
\* the pipeline is at work, the three memories do not change.
C28_SingleWriter ==
    /\ pc \in HwHostPcs =>
           /\ hw.top.fsm = "IDLE"
           /\ \A inp \in HostWrites : Tick(hw, inp).top.fsm = "IDLE"
    /\ pc = "hw_propagate" =>
           LET R == HwRounds(Cur, hw) IN
           \A i \in 1..Len(R) :
               /\ R[i].h0.top.fsm = "IDLE"
               /\ R[i].kind # "timeout" =>
                     /\ HwMemories(R[i].hd) = HwMemories(R[i].h0)
                     /\ LET W == DrainWriteStates(R[i].s0, R[i].hd) IN
                        \A k \in 1..Len(W) : W[k].top.fsm = "IDLE"

\* A call of _hw_propagate with a round that ends in a hardware conflict
\* and whose pop loop writes an assignment.
C28_Witness ==
    /\ pc = "hw_propagate"
    /\ LET R == HwRounds(Cur, hw) IN
       \E i \in 1..Len(R) :
           /\ R[i].kind = "hw_conflict"
           /\ DrainWriteStates(R[i].s0, R[i].hd) # <<>>

\* C29: whenever the HW-bridge run returns SAT, every clause of the input
\* formula (of up to 5 literals) has a literal that is TRUE under the final
\* software assignment.
C29_HwSatIsModel ==
    (pc = "hw_done" /\ result = "SAT") =>
        Models(assigns)

\* The condition on which the top-level FSM leaves ACTIVE.
LeavesActive(h) ==
    \/ h.top.conflict_reg
    \/ (h.top.wlm_done_seen \/ wlm_done(h)) /\ h.top.in_flight = 0

\* The step is a clock edge of BCPTop (the host does not take up a command).
TopClockEdge == Len(uart'.rx) <= Len(uart.rx)

\* C30: the top-level FSM only goes from IDLE to ACTIVE, on a start pulse,
\* from ACTIVE to DONE, exactly when a conflict is latched or the WLM has
\* signalled done and the in-flight counter is 0, and from DONE to IDLE; a
\* start pulse while the FSM is ACTIVE or DONE changes nothing: the edge
\* leaves the accelerator as the same edge without the pulse does.
C30_TopFsm ==
    /\ [](pc = "top" /\ hw.top.fsm \in {"ACTIVE", "DONE"} =>
            \A lit \in {TopLitA, TopLitB} :
                Tick(hw, [HostIdle EXCEPT !.start = TRUE, !.false_lit = lit])
                    = Tick(hw, HostIdle))
    /\ [][pc = "top" /\ TopClockEdge =>
            LET start == HostIfToBcp(host_if, TRUE).start
                a     == hw.top.fsm
                b     == hw'.top.fsm
            IN  /\ a = "IDLE" => (IF start THEN b = "ACTIVE" ELSE b = "IDLE")
                /\ a = "ACTIVE" => (IF LeavesActive(hw) THEN b = "DONE" ELSE b = "ACTIVE")
                /\ a = "DONE" => b \in {"DONE", "IDLE"}
                /\ (start /\ a # "IDLE") => hw' = Tick(hw, HostIdle)]_vars

\* BCP_START was sent after a round that ended in a conflict: its start
\* pulse found the FSM in DONE.
C30_Witness ==
    /\ pc = "top"
    /\ host_if.fsm = "BCP_WAIT"
    /\ uart.cmd.op = CMD_BCP_START
    /\ uart.pulses = 1
    /\ ~uart.resp
    /\ hw.top.fsm = "DONE"
    /\ hw.top.conflict_reg

\* The evaluator leaves IDLE with a clause although the prefetcher's read
\* pointer stays: the clause it evaluates was not taken from the buffer.
EvalBeginsUnconsumed ==
    /\ hw.ev.state = "IDLE"
    /\ hw'.ev.state # "IDLE"
    /\ hw'.pf.rd_ptr = hw.pf.rd_ptr

\* C31: at every clock edge of a round (top-level FSM not in IDLE) the
\* in-flight counter moves by the hand-offs minus the accepted results of
\* that edge and never steps from 0 below 0 (the 7-bit register does not wrap
\* to 127), and every evaluation the evaluator begins is of a clause it takes
\* from the prefetcher, so that each handed-off clause ID yields exactly one
\* result.
C31_InFlightCounter ==
    [][hw.top.fsm # "IDLE"
          => /\ ~(hw.top.in_flight = 0 /\ hw'.top.in_flight = InFlightMod - 1)
             /\ hw'.top.in_flight <= MAX_WATCH_LEN
             /\ ~EvalBeginsUnconsumed]_vars

\* The input ports with start, conflict_ack and impl_ready as given.
HostDrives(start, ack, pop) ==
    [HostIdle EXCEPT !.start = start, !.false_lit = TopLitA, !.conflict_ack = ack,
                     !.impl_ready = pop]

BenchWaitEdge == tb.phase = "run" /\ tb'.phase = "run" /\ tb'.cycles = tb.cycles + 1

\* C33: on a clock edge with pipeline_stall asserted (implication FIFO full,
\* or conflict latched and not acknowledged) the watch-list manager hands off
\* no clause ID and the prefetcher takes none, the prefetcher passes no
\* clause to the evaluator, and an evaluator in IDLE stays in IDLE.
C33_StallFreezes ==
    [][(BenchWaitEdge /\ pipeline_stall(hw, HostIdle)) =>
          /\ hw'.wlm.output_count = hw.wlm.output_count
          /\ ~hw'.pf.pipe1_valid
          /\ hw'.pf.rd_ptr = hw.pf.rd_ptr
          /\ hw.ev.state = "IDLE" => hw'.ev.state = "IDLE"]_vars

\* The watch-list manager's walk of a round, state by state: after the start
\* pulse it holds the started literal; the clause ID it presents is the
\* entry of the started list at the index of its hand-off count; it signals
\* done with every entry handed off; it is back in IDLE only after done.
WlmOnList(wl) ==
    LET w == hw.wlm IN
    /\ w.stored_lit = tb.F
    /\ w.output_count <= Len(wl)
    /\ w.state = "PRESENT" =>
           /\ w.output_count < Len(wl)
           /\ w.clause_id_reg = wl[w.output_count + 1]
    /\ w.state = "DONE" => w.output_count = Len(wl)
    /\ w.state = "IDLE" => (hw.top.wlm_done_seen /\ w.output_count = Len(wl))

\* C34: in every round, also one started after a round that ended by a
\* conflict, the watch-list manager takes the start pulse (it leaves IDLE for
\* the first read of the list of false_lit), hands off the entries 0..len-1
\* of that list in index order, one per hand-off and none twice, and then
\* asserts done for exactly one cycle.
C34_WlmWalk ==
    /\ [](tb.phase = "run" => WlmOnList(StoredWatchList(hw, tb.F)))
    /\ [][(tb'.rounds # tb.rounds => hw'.wlm.state = "READ_1")
          /\ (BenchWaitEdge =>
                /\ hw'.wlm.output_count
                      = (IF wlm_clause_id_valid(hw) /\ wlm_clause_id_ready(hw, HostIdle)
                         THEN hw.wlm.output_count + 1 ELSE hw.wlm.output_count)
                /\ wlm_done(hw) => ~wlm_done(hw'))]_vars

\* The clause IDs inside the prefetcher, oldest first: the buffered entries
\* from the read pointer on, then the two in-flight reads.
PfContents(h) ==
    [i \in 1..h.pf.buf_count |-> h.pf.buf[(h.pf.rd_ptr + i - 1) % BUF_DEPTH].cid]
        \o (IF h.pf.pipe2_valid THEN <<h.pf.pipe2_cid>> ELSE <<>>)
        \o (IF h.pf.pipe1_valid THEN <<h.pf.pipe1_cid>> ELSE <<>>)

RECURSIVE DrainPops(_, _)
DrainPops(s, h) ==
    IF ~impl_valid(h) THEN <<>>
    ELSE LET e  == FifoHead(h)
             h1 == PopImplication(h)
         IN  IF s.assigns[e.var] # UNASSIGNED
             THEN <<[e |-> e, a |-> s.assigns, applied |-> FALSE]>> \o DrainPops(s, h1)
             ELSE LET s1 == ApplyImplication(s, e) IN
                  <<[e |-> e, a |-> s.assigns, applied |-> TRUE]>>
                      \o DrainPops(s1, WriteAssign(h1, e.var,
                                                   sw_to_hw_assign(s1.assigns[e.var])))

\* The literal round r was started on.
RoundLit(r) == lit_neg(r.s0.trail[r.s0.prop_head])

\* The entries of a watch list before the first occurrence of clause cid.
RECURSIVE ListBefore(_, _)
ListBefore(wl, cid) ==
    IF wl = <<>> \/ Head(wl) = cid THEN <<>>
    ELSE <<Head(wl)>> \o ListBefore(Tail(wl), cid)

\* The implication popped as p is a derivation of the round on watch list
\* wl: its reason is in wl, contains the implied literal, and every other
\* literal of the reason is FALSE under the assignment the pop met.
PopJustified(p, wl) ==
    /\ \E i \in 1..Len(wl) : wl[i] = p.e.reason
    /\ p.e.reason < Len(clauses)
    /\ LET c == clauses[p.e.reason + 1] IN
       /\ \E k \in 1..c.size : c.lits[k] = ImplCode(p.e)
       /\ \A k \in 1..c.size :
              c.lits[k] # ImplCode(p.e) => LitValue(p.a, c.lits[k]) = 0

\* The FIFO is empty at every start pulse of _hw_propagate.
FifoEmptyAtStart ==
    \A i \in 1..Len(HwRounds(Cur, hw)) : fifo_empty(HwRounds(Cur, hw)[i].h0)

\* Every implication applied to the trail is justified by its round.
AppliedJustified ==
    LET R == HwRounds(Cur, hw) IN
    \A i \in 1..Len(R) :
        LET P == DrainPops(R[i].s0, R[i].hd) IN
        \A j \in 1..Len(P) :
            P[j].applied => PopJustified(P[j], StoredWatchList(R[i].h0, RoundLit(R[i])))

\* After a hardware conflict the pop loop finds the implications of the UNIT
\* clauses that precede the conflicting clause in the watch list, no other.
ConflictDrainIsPrefix ==
    LET R == HwRounds(Cur, hw) IN
    \A i \in 1..Len(R) :
        R[i].kind = "hw_conflict" =>
            LET P  == DrainPops(R[i].s0, R[i].hd)
                wl == StoredWatchList(R[i].h0, RoundLit(R[i]))
            IN  [j \in 1..Len(P) |-> P[j].e]
                    = ExpectedImplications(R[i].h0, ListBefore(wl, R[i].conflict))

\* C36: in the HW-bridge run the implication FIFO is empty at every start
\* pulse; every implication applied to the trail has a reason clause of the
\* round's watch list that contains the implied literal and whose other
\* literals are all FALSE in the software assignment at that moment; and
\* after a hardware conflict the FIFO yields exactly the implications of the
\* UNIT clauses listed before the conflicting clause.
C36_OnlyCurrentRound ==
    pc = "hw_propagate" =>
        /\ FifoEmptyAtStart
        /\ AppliedJustified
        /\ ConflictDrainIsPrefix

\* The learnt clause just inserted by solve (lines 336-340), in the state the
\* step leaves: a new clause with the next dense ID holding learnt_lits.
NewClauseAppended ==
    /\ Len(clauses') = Len(clauses) + 1
    /\ SubSeq(clauses', 1, Len(clauses)) = clauses
    /\ clauses'[Len(clauses) + 1] =
           [size |-> Len(learnt_lits), learnt |-> TRUE, lits |-> learnt_lits]

\* The new clause is on exactly the watch lists of its positions 0 and 1,
\* appended at the end, when it has two or more literals.
NewClauseWatched ==
    \A c \in Codes :
        watches'[c] = IF Len(learnt_lits) >= 2 /\ c \in {learnt_lits[1], learnt_lits[2]}
                      THEN Append(watches[c], Len(clauses))
                      ELSE watches[c]

\* learnt[0] is enqueued TRUE at level bt_level, every other literal of the
\* learnt clause is FALSE, and learnt[1] has level bt_level.
LearntAsserting ==
    /\ num_decisions' = bt_level
    /\ trail' = Append(trail, learnt_lits[1])
    /\ LitValue(assigns', learnt_lits[1]) = 1
    /\ levels'[lit_var(learnt_lits[1])] = bt_level
    /\ \A k \in 2..Len(learnt_lits) : LitValue(assigns', learnt_lits[k]) = 0
    /\ Len(learnt_lits) >= 2 =>
          /\ levels'[lit_var(learnt_lits[2])] = bt_level
          /\ \A k \in 3..Len(learnt_lits) : levels'[lit_var(learnt_lits[k])] <= bt_level

\* The reason recorded for learnt[0]: the new clause, or none for a learnt
\* clause of one literal.
LearntReason ==
    reasons'[lit_var(learnt_lits[1])] =
        IF Len(learnt_lits) = 1 THEN NoReason ELSE Len(clauses)

\* Positions (from 1) of the literals of learnt[1..] at the highest level
\* found there, in the list as the analysis built it.
TopPositions(lv, learnt0) ==
    {k \in 2..Len(learnt0) :
        \A j \in 2..Len(learnt0) : lv[lit_var(learnt0[j])] <= lv[lit_var(learnt0[k])]}

\* The scan and the swap of _analyze: bt_level is the highest level among
\* learnt[1..] (0 if there is none), learnt[1] is the first literal of
\* learnt[1..] at that level, and the literal it displaced stands where that
\* one stood; nothing else moves.
FirstHighestWatched ==
    pc = "ordered" =>
        LET tops == TopPositions(tb.lv, tb.learnt0)
            k    == MaxOf({0} \cup {i \in tops : \A j \in tops : i <= j})
        IN  IF Len(tb.learnt0) = 1
            THEN learnt_lits = tb.learnt0 /\ bt_level = 0
            ELSE /\ bt_level = tb.lv[lit_var(tb.learnt0[k])]
                 /\ learnt_lits = Swap(tb.learnt0, 2, k)
                 /\ learnt_lits[2] = tb.learnt0[k]
                 /\ \A j \in 2..(k - 1) : tb.lv[lit_var(tb.learnt0[j])] < bt_level

C37_WitnessOrder ==
    /\ pc = "ordered"
    /\ Len(tb.learnt0) = 4
    /\ TopPositions(tb.lv, tb.learnt0) = {3, 4}
    /\ learnt_lits[2] = tb.learnt0[3]

\* The watched-literal condition on one clause under an assignment: if one
\* of lits[0], lits[1] is FALSE the other is TRUE.
WatchedOk(c, a) ==
    c.size >= 2 =>
        /\ LitValue(a, c.lits[1]) = 0 => LitValue(a, c.lits[2]) = 1
        /\ LitValue(a, c.lits[2]) = 0 => LitValue(a, c.lits[1]) = 1

\* The weaker condition on a clause waiting for the propagation of the
\* literal f just made FALSE: a watched literal other than f is not FALSE.
OtherWatchNotFalse(c, a, f) ==
    c.size >= 2 => \A k \in 1..2 : c.lits[k] # f => LitValue(a, c.lits[k]) # 0

\* A clause watched on the literal that the enqueue of learnt[0] makes FALSE.
WatchesNegLearnt(c) ==
    c.size >= 2 /\ lit_neg(learnt_lits[1]) \in {c.lits[1], c.lits[2]}

\* C40: in SW-only mode, whenever _propagate_sw has returned no conflict and
\* also after the backtrack and learnt-literal enqueue that follow a conflict,
\* every clause of size >= 2 satisfies the watched-literal invariant: if one
\* of lits[0], lits[1] is FALSE then the other is TRUE.
C40_WatchedInvariant ==
    /\ [](pc = "noconflict" => \A i \in 1..Len(clauses) : WatchedOk(clauses[i], assigns))
    /\ [][pc = "backtracked" /\ pc' = "propagate"
             => \A i \in 1..Len(clauses') : WatchedOk(clauses'[i], assigns')]_vars

\* C40 as the code has it: the invariant holds when _propagate_sw has
\* returned no conflict and after the backtrack that follows a conflict;
\* after the enqueue of learnt[0] it holds for every clause not watched on
\* the negation of learnt[0]; those clauses wait for the next propagation,
\* their other watched literal (if it is another literal) not FALSE.
C40_WatchedAfterPropagation ==
    /\ [](pc \in {"noconflict", "backtracked"}
            => \A i \in 1..Len(clauses) : WatchedOk(clauses[i], assigns))
    /\ [][pc = "backtracked" /\ pc' = "propagate"
             => \A i \in 1..Len(clauses') :
                   IF WatchesNegLearnt(clauses'[i])
                   THEN OtherWatchNotFalse(clauses'[i], assigns', lit_neg(learnt_lits[1]))
                   ELSE WatchedOk(clauses'[i], assigns')]_vars

\* After a conflict and its learnt clause, propagation has returned without
\* conflict and some clause is watched on a FALSE literal, its other watched
\* literal TRUE.
C40_Witness ==
    /\ pc = "noconflict"
    /\ stats.conflicts >= 1
    /\ \E i \in 1..Len(clauses) : clauses[i].learnt
    /\ \E i \in 1..Len(clauses) :
          /\ clauses[i].size >= 2
          /\ LitValue(assigns, clauses[i].lits[2]) = 0
          /\ LitValue(assigns, clauses[i].lits[1]) = 1

\* The accelerator's memories mirror the solver: every clause ID holds a
\* record of the same size and literals, every literal code a watch list of
\* the same length and entries.
Mirrors(s, h) ==
    /\ \A ci \in 0..(Len(s.clauses) - 1) :
          /\ MemRead(h.cmem.mem, ci, ZeroClause).size = s.clauses[ci + 1].size
          /\ StoredLits(h, ci) = s.clauses[ci + 1].lits
    /\ \A code \in DOMAIN s.watches : StoredWatchList(h, code) = s.watches[code]

\* The mirror at every start pulse of a call of _hw_propagate.
MirrorAtStart ==
    pc = "hw_propagate" =>
        LET R == HwRounds(Cur, hw) IN \A i \in 1..Len(R) : Mirrors(R[i].s0, R[i].h0)

\* C38: whenever the bridge issues a start pulse, the clause memory holds for
\* every SW clause ID (original and learnt) a record with the same size and
\* literals as the SW clause, and the watch-list memory holds for every
\* literal code the SW watch list; a learnt clause and its two watch lists
\* are uploaded before the next start.
C38_HwMirror ==
    /\ MirrorAtStart
    /\ pc = "hw_uploaded" => Mirrors(Cur, hw)

\* The uploads of learnt clauses that fit a clause word mirror the solver.
UploadMirrorsUpToMaxK ==
    pc = "hw_uploaded" /\ Len(learnt_lits) <= MAX_K => Mirrors(Cur, hw)

\* HostInterface drives the start pulse of a BCP_START at this edge.
StartDriven == pc = "top" /\ HostIfToBcp(host_if, TRUE).start

\* The response to the current BCP_START is complete; its last four bytes
\* are the terminator.
RoundAnswered ==
    /\ pc = "top"
    /\ uart.cmd.op = CMD_BCP_START
    /\ uart.wait
    /\ ResponseDone(uart.tx)

\* C39: in BCPTop, after a BCP_START whose round ended with a 0xC1
\* terminator the accelerator returns to IDLE, and a later BCP_START starts
\* a new round whose response reports the outcome of the new false_lit's
\* watch list, not the earlier conflict: every start pulse finds the
\* top-level FSM in IDLE, and a round on the empty watch list of TopLitB is
\* answered with the terminator 0xC0.
C39_RoundAfterConflict ==
    /\ StartDriven => hw.top.fsm = "IDLE"
    /\ RoundAnswered /\ uart.cmd.lit = TopLitB =>
          LastN(uart.tx, 4) = DonePacket(FALSE, 0)

\* Until a conflict has been latched the rounds are as C39 says.
RoundsBeforeConflict ==
    /\ StartDriven /\ ~hw.top.conflict_reg => hw.top.fsm = "IDLE"
    /\ RoundAnswered /\ uart.cmd.lit = TopLitB /\ ~hw.top.conflict_reg =>
          LastN(uart.tx, 4) = DonePacket(FALSE, 0)

\* The conflict bound of AnalyzeConflict is never the reason a run stops.
ConflictBoundNotReached == pc = "conflict" => stats.conflicts < MaxConflicts

====
